---- MODULE Spec2Model ----
(***************************************************************************)
(* Presence and liveness subsystem of the realtime chat room.              *)
(*                                                                         *)
(* The store holds three maps keyed by user id: chatRoom/users,            *)
(* chatRoom/presence and chatRoom/typing.  Every browser tab is a client   *)
(* of the store with its own connection, its own presence controller      *)
(* (useStablePresence) and its own entry in the tab registry, which is the *)
(* 'chat-tabs' list in localStorage.  A sweeper (useGracefulCleanup) scans *)
(* the users and deletes the abandoned ones.  Time is in milliseconds.     *)
(***************************************************************************)
EXTENDS Integers, FiniteSets, Sequences, TLC

\* ---------------------------------------------------------------- bounds
MaxTabs == 2
MaxUsers == 2
MaxSweepers == 2
\* Fine-grained clock steps are taken only within this window after a long jump.
FineWindow == 15000
\* Number of long jumps of the clock.
MaxJumps == 1
FailsafeJumps == 2
MaxInflight == 2
MaxMessages == 6
MaxFailures == 2

\* ------------------------------------------------------- program constants
RoomCapacity == 20
HEARTBEAT_INTERVAL == 15000
USER_TIMEOUT == 900000
GRACE_PERIOD == 120000
DISCONNECT_DEBOUNCE == 10000
TabActiveWindow == 30000
SweepTabWindow == 60000
VerifyDelay == 5000
RateWindow == 60000
RateLimit == 5
maxRetries == 5
baseRetryDelay == 1000
TabHeartbeatInterval == 5000
TAB_TIMEOUT == 15000
TabCleanupDelay == 10000
TYPING_TIMEOUT == 3000
InputStopDelay == 1000
ChatTypingDelay == 3000
\* A JavaScript undefined/absent number; `x || y` falls through on it.
Undefined == 0
\* The smallest step of the clock.
Tick == DISCONNECT_DEBOUNCE \div 2

Tabs == 1..MaxTabs
Ids == 1..MaxUsers
Sweepers == 1..MaxSweepers
MaxTime == Tick + MaxJumps * USER_TIMEOUT + FineWindow

VARIABLES
  users,        \* chatRoom/users: id -> User record
  presence,     \* chatRoom/presence: id -> Presence record
  typing,       \* chatRoom/typing: the ids that have a TypingStatus
  now,          \* Date.now()
  nextId,       \* the next id generateUserId returns
  pc,           \* tab -> where the tab is in its life
  currentUser,  \* tab -> the id of its user, Undefined before it has one
  link,         \* tab -> its connection to the store is up (.info/connected)
  lastConnected,\* tab -> lastConnectedRef
  hidden,       \* tab -> document.hidden
  timeoutRef,   \* tab -> disconnectTimeoutRef: deadline of the timer it holds
  timers,       \* tab -> deadlines of its pending debounce timers
  beatAt,       \* tab -> when its heartbeat interval fires next
  armed,        \* tab -> the onDisconnect operations of its connection
  due,          \* tab -> the onDisconnect operations of a dropped connection
  chatTabs,     \* localStorage 'chat-tabs': tab -> [userId, timestamp]
  error,        \* tab -> the error of the chat context
  lastCall,     \* tab -> the last updatePresence call: [state, cause]
  view,         \* tab -> the ids of the users its chat context lists
  sweep,        \* sweeper -> its state
  failsafe,     \* the failsafe sweep of a chat client
  chat,         \* tab -> messageRateLimit, the sends under way, the messages
  conn,         \* the connection manager of a client
  mainTab,      \* localStorage 'chat-main-tab'
  mgr,          \* tab -> its multi-tab manager
  userWrite,    \* tab -> the update() of the User record an updatePresence
                \* call has still to issue: [state, timestamp]
  failures,     \* tab -> how many updatePresence calls have caught an error
  tabsRead,     \* tab -> what a registerTab under way has read of 'chat-tabs'
  typist        \* tab -> the typing timeouts of its input, its typing hook
                \* and its chat hook, and the time of its last typing event

vars == <<users, presence, typing, now, nextId, pc, currentUser, link,
          lastConnected, hidden, timeoutRef, timers, beatAt, armed, due,
          chatTabs, error, lastCall, view, sweep, failsafe, chat, conn, mainTab, mgr,
          userWrite, failures, tabsRead, typist>>

lateVars == <<userWrite, failures, tabsRead, typist>>
auxVars == <<failsafe, chat, conn, mainTab, mgr, lateVars>>
storeVars == <<users, presence, typing>>
ctrlVars == <<lastConnected, hidden, timeoutRef, timers, beatAt, view>>

\* ------------------------------------------------------------ the store
\* set(ref, value) at one id of a map.
Put(F, id, rec) == [j \in DOMAIN F \cup {id} |-> IF j = id THEN rec ELSE F[j]]

\* set(ref, null) at one id of a map: a no-op on an absent id.
Remove(F, id) == [j \in DOMAIN F \ {id} |-> F[j]]

\* The User record joinRoom writes.
NewUser(ts) ==
  [complete |-> TRUE, lastSeen |-> ts, isOnline |-> "true",
   connectionState |-> "online"]

\* The Presence record joinRoom writes.
NewPresence(ts) ==
  [isOnline |-> "true", lastSeen |-> ts, connectionState |-> "online",
   gracePeriodActive |-> "false", disconnectTime |-> Undefined]

\* An updatePresence that starts the grace period itself when it writes
\* 'offline'.
PresenceData_GraceOnOffline(state, ts) ==
  [isOnline |-> IF state = "online" THEN "true" ELSE "false",
   lastSeen |-> ts, connectionState |-> state,
   gracePeriodActive |-> IF state = "offline" THEN "true" ELSE "false",
   disconnectTime |-> IF state = "offline" THEN ts ELSE Undefined]

\* The Presence record updatePresence writes with set(): the whole record.
PresenceData(state, ts) ==
  [isOnline |-> IF state = "online" THEN "true" ELSE "false",
   lastSeen |-> ts, connectionState |-> state,
   gracePeriodActive |-> "false", disconnectTime |-> Undefined]

\* update(userRef, {lastSeen, isOnline, connectionState}): the other fields are
\* kept, and on an absent record the three fields are all it gets.
UpdateUser(U, id, state, ts) ==
  IF id \in DOMAIN U
  THEN [U EXCEPT ![id].lastSeen = ts,
                 ![id].isOnline = IF state = "online" THEN "true" ELSE "false",
                 ![id].connectionState = state]
  ELSE Put(U, id, [complete |-> FALSE, lastSeen |-> ts,
                   isOnline |-> IF state = "online" THEN "true" ELSE "false",
                   connectionState |-> state])

NoTrigger == [id |-> Undefined, user |-> FALSE, pres |-> "none", typing |-> FALSE]
NoCall == [state |-> "none", cause |-> "none"]
IdleSweep ==
  [pc |-> "idle", local |-> FALSE, cands |-> <<>>, processAt |-> Undefined,
   del |-> Undefined, verdict |-> "none", stopped |-> FALSE,
   firstRun |-> "pending"]

\* The failsafe interval of useChat between two of its runs.
IdleFailsafe == [pc |-> "idle", victims |-> {}]

\* No call of handleSendMessage in a slot.
NoSend == [at |-> Undefined, recent |-> <<>>]

\* The chat container after its mount: useState<number[]>([]).
NewChat ==
  [messageRateLimit |-> <<>>, calls |-> [k \in 1..MaxInflight |-> NoSend],
   sent |-> <<>>, toast |-> FALSE]

\* useConnectionManager after its mount: the state of useState and the
\* listener of the first initializeConnection, which has delivered nothing yet.
\* timer is the timeout that retryTimeoutRef holds, leaked the timeouts whose
\* handle a later one has replaced.
NewConnection ==
  [isConnected |-> FALSE, retryCount |-> 0, listening |-> TRUE,
   delivered |-> "none", timer |-> {}, leaked |-> {}]

\* No item 'chat-main-tab'.
NoMain == [tabId |-> Undefined, userId |-> Undefined, timestamp |-> Undefined]

\* A tab in which useMultiTabManager has not been initialized.
NoManager ==
  [pc |-> "off", userId |-> Undefined, isMain |-> FALSE, beatAt |-> Undefined,
   cleanupAt |-> Undefined, notified |-> FALSE]

NoWrite == [state |-> "none", timestamp |-> Undefined]
NotRead == [read |-> FALSE, tabs |-> <<>>]
NoTypist ==
  [inputTimer |-> Undefined, hookTimers |-> {}, hookRef |-> Undefined,
   chatTimers |-> {}, chatRef |-> Undefined, lastEvent |-> Undefined]

AuxInit ==
  /\ failsafe = IdleFailsafe
  /\ chat = [t \in Tabs |-> NewChat]
  /\ conn = NewConnection
  /\ mainTab = NoMain
  /\ mgr = [t \in Tabs |-> NoManager]
  /\ userWrite = [t \in Tabs |-> NoWrite]
  /\ failures = [t \in Tabs |-> 0]
  /\ tabsRead = [t \in Tabs |-> NotRead]
  /\ typist = [t \in Tabs |-> NoTypist]

Init ==
  /\ users = <<>>
  /\ presence = <<>>
  /\ typing = {}
  /\ now = Tick
  /\ nextId = 1
  /\ pc = [t \in Tabs |-> "idle"]
  /\ currentUser = [t \in Tabs |-> Undefined]
  /\ link = [t \in Tabs |-> TRUE]
  /\ lastConnected = [t \in Tabs |-> TRUE]
  /\ hidden = [t \in Tabs |-> FALSE]
  /\ timeoutRef = [t \in Tabs |-> Undefined]
  /\ timers = [t \in Tabs |-> {}]
  /\ beatAt = [t \in Tabs |-> Undefined]
  /\ armed = [t \in Tabs |-> NoTrigger]
  /\ due = [t \in Tabs |-> NoTrigger]
  /\ chatTabs = <<>>
  /\ error = [t \in Tabs |-> "none"]
  /\ lastCall = [t \in Tabs |-> NoCall]
  /\ view = [t \in Tabs |-> {}]
  /\ sweep = [s \in Sweepers |-> IdleSweep]
  /\ AuxInit

\* ------------------------------------------------------------- joinRoom
\* A capacity check that lets one user too many in.
RoomFull_OffByOne(U) == Cardinality(DOMAIN U) > RoomCapacity

\* currentUsers.length >= 20
RoomFull(U) == Cardinality(DOMAIN U) >= RoomCapacity

\* joinRoom up to its capacity check: reads the users and either gives up with
\* the 'room is full' error or goes on with a fresh id.
JoinRead(t) ==
  /\ pc[t] = "idle"
  /\ link[t]
  /\ nextId \in Ids
  /\ IF RoomFull(users)
     THEN /\ error' = [error EXCEPT ![t] = "full"]
          /\ UNCHANGED <<pc, currentUser, nextId>>
     ELSE /\ error' = [error EXCEPT ![t] = "none"]
          /\ pc' = [pc EXCEPT ![t] = "joinRead"]
          /\ currentUser' = [currentUser EXCEPT ![t] = nextId]
          /\ nextId' = nextId + 1
  /\ UNCHANGED <<storeVars, now, link, ctrlVars, armed, due, chatTabs,
                 lastCall, sweep>>
  /\ UNCHANGED auxVars

\* await set(userRef, user)
JoinWriteUser(t) ==
  /\ pc[t] = "joinRead"
  /\ link[t]
  /\ users' = Put(users, currentUser[t], NewUser(now))
  /\ pc' = [pc EXCEPT ![t] = "joinUser"]
  /\ UNCHANGED <<presence, typing, now, nextId, currentUser, link, ctrlVars,
                 armed, due, chatTabs, error, lastCall, sweep>>
  /\ UNCHANGED auxVars

\* await set(presenceRef, presenceData)
JoinWritePresence(t) ==
  /\ pc[t] = "joinUser"
  /\ link[t]
  /\ presence' = Put(presence, currentUser[t], NewPresence(now))
  /\ pc' = [pc EXCEPT ![t] = "joinPres"]
  /\ UNCHANGED <<users, typing, now, nextId, currentUser, link, ctrlVars,
                 armed, due, chatTabs, error, lastCall, sweep>>
  /\ UNCHANGED auxVars

\* The three onDisconnect(...).remove() of joinRoom, and its return.
JoinArm(t) ==
  /\ pc[t] = "joinPres"
  /\ link[t]
  /\ armed' = [armed EXCEPT ![t] =
       [id |-> currentUser[t], user |-> TRUE, pres |-> "remove", typing |-> TRUE]]
  /\ pc' = [pc EXCEPT ![t] = "joined"]
  /\ UNCHANGED <<storeVars, now, nextId, currentUser, link, ctrlVars, due,
                 chatTabs, error, lastCall, sweep>>
  /\ UNCHANGED auxVars

\* isLoading of the chat context: setLoading(true) at the start of joinRoom's
\* try block, setLoading(false) at each of its returns.
isLoading(t) == pc[t] \in {"joinRead", "joinUser", "joinPres"}

\* joinRoom with a name that is empty after trim(): 'Invalid username', null.
JoinInvalidName(t) ==
  /\ pc[t] = "idle"
  /\ error' = [error EXCEPT ![t] = "invalid"]
  /\ UNCHANGED <<storeVars, now, nextId, pc, currentUser, link, ctrlVars, armed,
                 due, chatTabs, lastCall, sweep>>
  /\ UNCHANGED auxVars

\* The get() of the users rejects: the catch block sets the error and
\* returns null; no id was generated.
JoinReadFails(t) ==
  /\ pc[t] = "idle"
  /\ link[t]
  /\ error' = [error EXCEPT ![t] = "failed"]
  /\ currentUser' = [currentUser EXCEPT ![t] = Undefined]
  /\ UNCHANGED <<storeVars, now, nextId, pc, link, ctrlVars, armed, due,
                 chatTabs, lastCall, sweep>>
  /\ UNCHANGED auxVars

\* A later awaited operation of joinRoom rejects: the set() of the User
\* record, the set() of the Presence record, or one of the three onDisconnect
\* registrations, k of them having been registered.  The catch block sets the
\* error and returns null.
JoinFails(t, k) ==
  /\ pc[t] \in {"joinRead", "joinUser", "joinPres"}
  /\ pc[t] # "joinPres" => k = 0
  /\ error' = [error EXCEPT ![t] = "failed"]
  /\ pc' = [pc EXCEPT ![t] = "idle"]
  /\ armed' = [armed EXCEPT ![t] =
       IF k = 0 THEN @
       ELSE [id |-> currentUser[t], user |-> TRUE,
             pres |-> IF k = 2 THEN "remove" ELSE "none", typing |-> FALSE]]
  /\ UNCHANGED <<storeVars, now, nextId, currentUser, link, ctrlVars, due,
                 chatTabs, lastCall, sweep>>
  /\ UNCHANGED auxVars

\* ------------------------------------------------- the presence controller
\* A registry lookup that does not leave the tab's own entry out.
hasOtherActiveTabs_CountsSelf(t, reg) ==
  \E o \in DOMAIN reg :
    /\ reg[o].userId = currentUser[t]
    /\ now - reg[o].timestamp < TabActiveWindow

\* hasOtherActiveTabs: another entry of the registry with the tab's user, another
\* tabId and a timestamp less than 30 seconds old.
hasOtherActiveTabs(t, reg) ==
  \E o \in DOMAIN reg :
    /\ reg[o].userId = currentUser[t]
    /\ o # t
    /\ now - reg[o].timestamp < TabActiveWindow

\* registerTab: the tab's own entry is replaced by a fresh one.
registerTab(t, reg) ==
  Put(Remove(reg, t), t, [userId |-> currentUser[t], timestamp |-> now])

\* updatePresence(state): set() of the whole Presence record, then update() of
\* three fields of the User record.  A write of a client whose connection is
\* down does not reach the store.
updatePresence(t, state, lands) ==
  IF lands
  THEN /\ presence' = Put(presence, currentUser[t], PresenceData(state, now))
       /\ users' = UpdateUser(users, currentUser[t], state, now)
  ELSE UNCHANGED <<presence, users>>

Called(t, state, cause) ==
  lastCall' = [lastCall EXCEPT ![t] = [state |-> state, cause |-> cause]]

\* setupGracefulDisconnect: onDisconnect(presenceRef).update(...) is merged over
\* what is already registered at the path, onDisconnect(typingRef).remove().
setupGracefulDisconnect(t) ==
  [id |-> currentUser[t], user |-> armed[t].user,
   pres |-> IF armed[t].pres = "remove" THEN "removeThenUpdate" ELSE "update",
   typing |-> TRUE]

\* initialize, run by the effect of useStablePresence when the chat container
\* mounts: after joinRoom has returned the user.
Mount(t) ==
  /\ pc[t] = "joined"
  /\ link[t]
  /\ pc' = [pc EXCEPT ![t] = "mounted"]
  /\ chatTabs' = registerTab(t, chatTabs)
  /\ armed' = [armed EXCEPT ![t] = setupGracefulDisconnect(t)]
  /\ lastConnected' = [lastConnected EXCEPT ![t] = TRUE]
  /\ beatAt' = [beatAt EXCEPT ![t] = now + HEARTBEAT_INTERVAL]
  /\ updatePresence(t, "online", TRUE)
  /\ Called(t, "online", "init")
  /\ UNCHANGED <<typing, now, nextId, currentUser, link, hidden, timeoutRef,
                 timers, due, error, view, sweep>>
  /\ UNCHANGED auxVars

\* A second tab of the browser opens the chat as a user that a mounted tab
\* already has: useStablePresence(currentUser) initializes, joinRoom did not run
\* in this tab.
OpenTabForUser(t, o) ==
  /\ pc[t] = "idle"
  /\ link[t]
  /\ o # t
  /\ pc[o] = "mounted"
  /\ pc' = [pc EXCEPT ![t] = "mounted"]
  /\ currentUser' = [currentUser EXCEPT ![t] = currentUser[o]]
  /\ chatTabs' = Put(Remove(chatTabs, t), t,
                     [userId |-> currentUser[o], timestamp |-> now])
  /\ armed' = [armed EXCEPT ![t] =
       [id |-> currentUser[o], user |-> FALSE, pres |-> "update", typing |-> TRUE]]
  /\ lastConnected' = [lastConnected EXCEPT ![t] = TRUE]
  /\ beatAt' = [beatAt EXCEPT ![t] = now + HEARTBEAT_INTERVAL]
  /\ presence' = Put(presence, currentUser[o], PresenceData("online", now))
  /\ users' = UpdateUser(users, currentUser[o], "online", now)
  /\ Called(t, "online", "init")
  /\ UNCHANGED <<typing, now, nextId, link, hidden, timeoutRef, timers, due,
                 error, view, sweep>>
  /\ UNCHANGED auxVars

\* handleConnectionChange(false) after true: the pending timer is cleared and a
\* new one started.
StartDebounce(t) ==
  /\ timers' = [timers EXCEPT ![t] = (@ \ {timeoutRef[t]}) \cup {now + DISCONNECT_DEBOUNCE}]
  /\ timeoutRef' = [timeoutRef EXCEPT ![t] = now + DISCONNECT_DEBOUNCE]

\* A reconnect that forgets the timer without clearing it.
CancelDebounce_KeepTimer(t) ==
  /\ timers' = timers
  /\ timeoutRef' = [timeoutRef EXCEPT ![t] = Undefined]

\* handleConnectionChange(true) after false: the pending timer is cleared.
CancelDebounce(t) ==
  /\ timers' = [timers EXCEPT ![t] = @ \ {timeoutRef[t]}]
  /\ timeoutRef' = [timeoutRef EXCEPT ![t] = Undefined]

\* The tab's connection drops: the store will run the onDisconnect operations
\* of the connection, and a mounted controller sees .info/connected = false.
ConnectionLost(t) ==
  /\ link[t]
  /\ pc[t] \in {"joined", "mounted", "left"}
  /\ armed[t] = NoTrigger \/ due[t] = NoTrigger
  /\ link' = [link EXCEPT ![t] = FALSE]
  /\ due' = [due EXCEPT ![t] = IF armed[t] = NoTrigger THEN @ ELSE armed[t]]
  /\ armed' = [armed EXCEPT ![t] = NoTrigger]
  /\ IF pc[t] = "mounted" /\ lastConnected[t]
     THEN /\ lastConnected' = [lastConnected EXCEPT ![t] = FALSE]
          /\ StartDebounce(t)
     ELSE UNCHANGED <<lastConnected, timers, timeoutRef>>
  /\ UNCHANGED <<storeVars, now, nextId, pc, currentUser, hidden, beatAt,
                 chatTabs, error, lastCall, view, sweep>>
  /\ UNCHANGED auxVars

\* The tab's connection is back: a mounted controller sees .info/connected =
\* true, cancels the pending timer and writes 'online'.
ConnectionRestored(t) ==
  /\ ~link[t]
  /\ pc[t] # "closed"
  /\ link' = [link EXCEPT ![t] = TRUE]
  /\ IF pc[t] = "mounted" /\ ~lastConnected[t]
     THEN /\ lastConnected' = [lastConnected EXCEPT ![t] = TRUE]
          /\ CancelDebounce(t)
          /\ updatePresence(t, "online", TRUE)
          /\ Called(t, "online", "reconnect")
     ELSE UNCHANGED <<lastConnected, timers, timeoutRef, presence, users,
                      lastCall>>
  /\ UNCHANGED <<typing, now, nextId, pc, currentUser, hidden, beatAt, armed,
                 due, chatTabs, error, view, sweep>>
  /\ UNCHANGED auxVars

\* The debounce timer expires, DISCONNECT_DEBOUNCE after the disconnect.
DebounceFire(t) ==
  /\ pc[t] = "mounted"
  /\ now \in timers[t]
  /\ timers' = [timers EXCEPT ![t] = @ \ {now}]
  /\ IF ~hasOtherActiveTabs(t, chatTabs)
     THEN /\ updatePresence(t, "offline", link[t])
          /\ Called(t, "offline", "debounce")
     ELSE UNCHANGED <<presence, users, lastCall>>
  /\ UNCHANGED <<typing, now, nextId, pc, currentUser, link, lastConnected,
                 hidden, timeoutRef, beatAt, armed, due, chatTabs, error, view, sweep>>
  /\ UNCHANGED auxVars

\* A heartbeat that does not look at document.hidden.
Heartbeat_IgnoresHidden(t) ==
  /\ pc[t] = "mounted"
  /\ now = beatAt[t]
  /\ beatAt' = [beatAt EXCEPT ![t] = now + HEARTBEAT_INTERVAL]
  /\ IF lastConnected[t]
     THEN /\ chatTabs' = registerTab(t, chatTabs)
          /\ updatePresence(t, "online", link[t])
          /\ Called(t, "online", "heartbeat")
     ELSE UNCHANGED <<chatTabs, presence, users, lastCall>>
  /\ UNCHANGED <<typing, now, nextId, pc, currentUser, link, lastConnected,
                 hidden, timeoutRef, timers, armed, due, error, view, sweep>>
  /\ UNCHANGED auxVars

\* A tick of the heartbeat interval.
Heartbeat(t) ==
  /\ pc[t] = "mounted"
  /\ now = beatAt[t]
  /\ beatAt' = [beatAt EXCEPT ![t] = now + HEARTBEAT_INTERVAL]
  /\ IF lastConnected[t]
     THEN /\ chatTabs' = registerTab(t, chatTabs)
          /\ updatePresence(t, IF hidden[t] THEN "away" ELSE "online", link[t])
          /\ Called(t, IF hidden[t] THEN "away" ELSE "online", "heartbeat")
     ELSE UNCHANGED <<chatTabs, presence, users, lastCall>>
  /\ UNCHANGED <<typing, now, nextId, pc, currentUser, link, lastConnected,
                 hidden, timeoutRef, timers, armed, due, error, view, sweep>>
  /\ UNCHANGED auxVars

\* A visibility handler that does not look at lastConnectedRef.
VisibilityChange_Unconditional(t) ==
  /\ pc[t] = "mounted"
  /\ hidden' = [hidden EXCEPT ![t] = ~@]
  /\ updatePresence(t, IF hidden[t] THEN "online" ELSE "away", link[t])
  /\ Called(t, IF hidden[t] THEN "online" ELSE "away", "visibility")
  /\ UNCHANGED <<typing, now, nextId, pc, currentUser, link, lastConnected,
                 timeoutRef, timers, beatAt, armed, due, chatTabs, error, view, sweep>>
  /\ UNCHANGED auxVars

\* handleVisibilityChange
VisibilityChange(t) ==
  /\ pc[t] = "mounted"
  /\ hidden' = [hidden EXCEPT ![t] = ~@]
  /\ IF lastConnected[t]
     THEN /\ updatePresence(t, IF hidden[t] THEN "online" ELSE "away", link[t])
          /\ Called(t, IF hidden[t] THEN "online" ELSE "away", "visibility")
     ELSE UNCHANGED <<presence, users, lastCall>>
  /\ UNCHANGED <<typing, now, nextId, pc, currentUser, link, lastConnected,
                 timeoutRef, timers, beatAt, armed, due, chatTabs, error, view, sweep>>
  /\ UNCHANGED auxVars

\* updatePresence up to its first await: the timestamp is taken and the
\* Presence record is set(); the update() of the User record is issued when
\* the store has answered the set().
updatePresenceSet(t, state) ==
  /\ presence' = Put(presence, currentUser[t], PresenceData(state, now))
  /\ userWrite' = [userWrite EXCEPT ![t] = [state |-> state, timestamp |-> now]]

\* handleVisibilityChange of a connected tab, up to the await of the set()
\* inside updatePresence.
VisibilityChangeSet(t) ==
  /\ pc[t] = "mounted"
  /\ lastConnected[t]
  /\ link[t]
  /\ userWrite[t] = NoWrite
  /\ hidden' = [hidden EXCEPT ![t] = ~@]
  /\ updatePresenceSet(t, IF hidden[t] THEN "online" ELSE "away")
  /\ Called(t, IF hidden[t] THEN "online" ELSE "away", "visibility")
  /\ UNCHANGED <<users, typing, now, nextId, pc, currentUser, link, lastConnected,
                 timeoutRef, timers, beatAt, armed, due, chatTabs, error, view, sweep>>
  /\ UNCHANGED <<failsafe, chat, conn, mainTab, mgr, failures, tabsRead, typist>>

\* The rest of updatePresence after the await: update(userRef, ...) with the
\* timestamp the call took before the set().
updatePresenceResume(t) ==
  /\ pc[t] = "mounted"
  /\ userWrite[t] # NoWrite
  /\ users' = IF link[t]
              THEN UpdateUser(users, currentUser[t], userWrite[t].state,
                              userWrite[t].timestamp)
              ELSE users
  /\ userWrite' = [userWrite EXCEPT ![t] = NoWrite]
  /\ UNCHANGED <<presence, typing, now, nextId, pc, currentUser, link, ctrlVars,
                 armed, due, chatTabs, error, lastCall, sweep>>
  /\ UNCHANGED <<failsafe, chat, conn, mainTab, mgr, failures, tabsRead, typist>>

\* An updatePresence whose catch block reports the error to the user.
updatePresenceThrows_SetsError(t, state, failure) ==
  /\ presence' = IF failure = "update"
                 THEN Put(presence, currentUser[t], PresenceData(state, now))
                 ELSE presence
  /\ UNCHANGED users
  /\ error' = [error EXCEPT ![t] = "presence"]
  /\ failures' = [failures EXCEPT ![t] = @ + 1]

\* updatePresence when the store rejects one of its two writes: the set() of
\* the Presence record, after which the update() is not issued, or the
\* update() of the User record.  The catch block does nothing.
updatePresenceThrows(t, state, failure) ==
  /\ presence' = IF failure = "update"
                 THEN Put(presence, currentUser[t], PresenceData(state, now))
                 ELSE presence
  /\ UNCHANGED users
  /\ UNCHANGED error
  /\ failures' = [failures EXCEPT ![t] = @ + 1]

\* A tick of the heartbeat interval whose updatePresence is rejected.
HeartbeatThrows(t, failure) ==
  /\ pc[t] = "mounted"
  /\ now = beatAt[t]
  /\ lastConnected[t]
  /\ failures[t] < MaxFailures
  /\ beatAt' = [beatAt EXCEPT ![t] = now + HEARTBEAT_INTERVAL]
  /\ chatTabs' = registerTab(t, chatTabs)
  /\ updatePresenceThrows(t, IF hidden[t] THEN "away" ELSE "online", failure)
  /\ Called(t, IF hidden[t] THEN "away" ELSE "online", "heartbeat")
  /\ UNCHANGED <<typing, now, nextId, pc, currentUser, link, lastConnected,
                 hidden, timeoutRef, timers, armed, due, view, sweep>>
  /\ UNCHANGED <<failsafe, chat, conn, mainTab, mgr, userWrite, tabsRead, typist>>

\* handleVisibilityChange whose updatePresence is rejected.
VisibilityChangeThrows(t, failure) ==
  /\ pc[t] = "mounted"
  /\ lastConnected[t]
  /\ failures[t] < MaxFailures
  /\ hidden' = [hidden EXCEPT ![t] = ~@]
  /\ updatePresenceThrows(t, IF hidden[t] THEN "online" ELSE "away", failure)
  /\ Called(t, IF hidden[t] THEN "online" ELSE "away", "visibility")
  /\ UNCHANGED <<typing, now, nextId, pc, currentUser, link, lastConnected,
                 timeoutRef, timers, beatAt, armed, due, chatTabs, view, sweep>>
  /\ UNCHANGED <<failsafe, chat, conn, mainTab, mgr, userWrite, tabsRead, typist>>

\* The debounce timer expires and the updatePresence('offline') is rejected.
DebounceFireThrows(t, failure) ==
  /\ pc[t] = "mounted"
  /\ now \in timers[t]
  /\ ~hasOtherActiveTabs(t, chatTabs)
  /\ failures[t] < MaxFailures
  /\ timers' = [timers EXCEPT ![t] = @ \ {now}]
  /\ updatePresenceThrows(t, "offline", failure)
  /\ Called(t, "offline", "debounce")
  /\ UNCHANGED <<typing, now, nextId, pc, currentUser, link, lastConnected,
                 hidden, timeoutRef, beatAt, armed, due, chatTabs, view, sweep>>
  /\ UNCHANGED <<failsafe, chat, conn, mainTab, mgr, userWrite, tabsRead, typist>>

\* The heartbeat's registerTab up to its localStorage.getItem('chat-tabs'):
\* another tab of the browser may write the key before this tab writes it.
HeartbeatGetItem(t) ==
  /\ pc[t] = "mounted"
  /\ now = beatAt[t]
  /\ lastConnected[t]
  /\ ~tabsRead[t].read
  /\ tabsRead' = [tabsRead EXCEPT ![t] = [read |-> TRUE, tabs |-> chatTabs]]
  /\ UNCHANGED <<storeVars, now, nextId, pc, currentUser, link, ctrlVars, armed,
                 due, chatTabs, error, lastCall, sweep>>
  /\ UNCHANGED <<failsafe, chat, conn, mainTab, mgr, userWrite, failures, typist>>

\* The rest of the heartbeat: registerTab filters and pushes on what it has
\* read and writes the key with setItem, then updatePresence.
HeartbeatSetItem(t) ==
  /\ pc[t] = "mounted"
  /\ now = beatAt[t]
  /\ tabsRead[t].read
  /\ beatAt' = [beatAt EXCEPT ![t] = now + HEARTBEAT_INTERVAL]
  /\ chatTabs' = registerTab(t, tabsRead[t].tabs)
  /\ tabsRead' = [tabsRead EXCEPT ![t] = NotRead]
  /\ updatePresence(t, IF hidden[t] THEN "away" ELSE "online", link[t])
  /\ Called(t, IF hidden[t] THEN "away" ELSE "online", "heartbeat")
  /\ UNCHANGED <<typing, now, nextId, pc, currentUser, link, lastConnected,
                 hidden, timeoutRef, timers, armed, due, error, view, sweep>>
  /\ UNCHANGED <<failsafe, chat, conn, mainTab, mgr, userWrite, failures, typist>>

\* A delete that marks the records offline with update() instead of removing
\* them: on an absent id it creates a record.
DeleteRecords_Soft(id) ==
  /\ users' = UpdateUser(users, id, "offline", now)
  /\ typing' = typing \ {id}
  /\ presence' = Remove(presence, id)

\* The deletes of leaveRoom, of cleanup and of the sweeper: set(ref, null) at
\* the three paths of an id.
DeleteRecords(id) ==
  /\ users' = Remove(users, id)
  /\ typing' = typing \ {id}
  /\ presence' = Remove(presence, id)

\* The tab is closed while its chat container is mounted.  handleBeforeUnload
\* takes the tab out of the registry and, when no other tab is active, calls
\* updatePresence('offline'): the page goes away while the two writes are on
\* their way, so none, the first or both reach the store.  The connection drops
\* with the page.
CloseTab(t, landed) ==
  /\ pc[t] = "mounted"
  /\ armed[t] = NoTrigger \/ due[t] = NoTrigger
  /\ pc' = [pc EXCEPT ![t] = "closed"]
  /\ chatTabs' = Remove(chatTabs, t)
  /\ IF ~hasOtherActiveTabs(t, Remove(chatTabs, t))
     THEN /\ Called(t, "offline", "unload")
          /\ presence' = IF link[t] /\ landed \in {"presence", "both"}
                         THEN Put(presence, currentUser[t], PresenceData("offline", now))
                         ELSE presence
          /\ users' = IF link[t] /\ landed = "both"
                      THEN UpdateUser(users, currentUser[t], "offline", now)
                      ELSE users
     ELSE /\ landed = "none"
          /\ UNCHANGED <<presence, users, lastCall>>
  /\ link' = [link EXCEPT ![t] = FALSE]
  /\ due' = [due EXCEPT ![t] = IF armed[t] = NoTrigger THEN @ ELSE armed[t]]
  /\ armed' = [armed EXCEPT ![t] = NoTrigger]
  /\ timers' = [timers EXCEPT ![t] = {}]
  /\ beatAt' = [beatAt EXCEPT ![t] = Undefined]
  /\ UNCHANGED <<typing, now, nextId, currentUser, lastConnected, hidden,
                 timeoutRef, error, view, sweep>>
  /\ UNCHANGED auxVars

\* The tab goes away with no handler run: it crashes, or it is closed outside
\* a mounted chat container (in the middle of joinRoom, between joinRoom and
\* the mount, after a leave).  Its timers go with it.
TabGone(t) ==
  /\ pc[t] \in {"joinUser", "joinPres", "joined", "mounted", "left"}
  /\ armed[t] = NoTrigger \/ due[t] = NoTrigger
  /\ pc' = [pc EXCEPT ![t] = "closed"]
  /\ link' = [link EXCEPT ![t] = FALSE]
  /\ due' = [due EXCEPT ![t] = IF armed[t] = NoTrigger THEN @ ELSE armed[t]]
  /\ armed' = [armed EXCEPT ![t] = NoTrigger]
  /\ timers' = [timers EXCEPT ![t] = {}]
  /\ beatAt' = [beatAt EXCEPT ![t] = Undefined]
  /\ UNCHANGED <<storeVars, now, nextId, currentUser, lastConnected, hidden,
                 timeoutRef, view, chatTabs, error, lastCall, sweep>>
  /\ UNCHANGED auxVars

\* What an onDisconnect registration at chatRoom/presence/{id} does to the map.
FirePresence(P, kind, id) ==
  CASE kind = "remove" -> Remove(P, id)
    [] kind = "removeThenUpdate" ->
         Put(P, id, [isOnline |-> "undef", lastSeen |-> Undefined,
                     connectionState |-> "offline", gracePeriodActive |-> "true",
                     disconnectTime |-> now])
    [] kind = "update" ->
         IF id \in DOMAIN P
         THEN [P EXCEPT ![id].connectionState = "offline",
                        ![id].gracePeriodActive = "true",
                        ![id].disconnectTime = now]
         ELSE Put(P, id, [isOnline |-> "undef", lastSeen |-> Undefined,
                          connectionState |-> "offline",
                          gracePeriodActive |-> "true", disconnectTime |-> now])
    [] OTHER -> P

\* The store runs the onDisconnect operations of a connection that dropped.
TriggerFire(t) ==
  /\ due[t] # NoTrigger
  /\ users' = IF due[t].user THEN Remove(users, due[t].id) ELSE users
  /\ presence' = FirePresence(presence, due[t].pres, due[t].id)
  /\ typing' = IF due[t].typing THEN typing \ {due[t].id} ELSE typing
  /\ due' = [due EXCEPT ![t] = NoTrigger]
  /\ UNCHANGED <<now, nextId, pc, currentUser, link, ctrlVars, armed, chatTabs,
                 error, lastCall, sweep>>
  /\ UNCHANGED auxVars

\* The cleanup of the chat container's effect: typingHook.cleanup(),
\* stablePresenceHook.cleanup() and leaveRoom(currentUser.id).  leaveRoom
\* deletes the three records whatever cleanup() decided.
EffectCleanup(t) ==
  IF link[t]
  THEN DeleteRecords(currentUser[t])
  ELSE UNCHANGED storeVars

\* An unmount that leaves the debounce timeout of the controller pending.
LeaveRoom_KeepTimer(t) ==
  /\ pc[t] = "mounted"
  /\ pc' = [pc EXCEPT ![t] = "left"]
  /\ EffectCleanup(t)
  /\ timeoutRef' = [timeoutRef EXCEPT ![t] = Undefined]
  /\ beatAt' = [beatAt EXCEPT ![t] = Undefined]
  /\ UNCHANGED <<now, nextId, currentUser, link, lastConnected, hidden, armed,
                 due, chatTabs, error, lastCall, view, sweep, timers>>
  /\ UNCHANGED auxVars

\* The user leaves: the chat container unmounts, and so does the controller,
\* which clears its timers.
LeaveRoom(t) ==
  /\ pc[t] = "mounted"
  /\ pc' = [pc EXCEPT ![t] = "left"]
  /\ EffectCleanup(t)
  /\ timers' = [timers EXCEPT ![t] = {}]
  /\ timeoutRef' = [timeoutRef EXCEPT ![t] = Undefined]
  /\ beatAt' = [beatAt EXCEPT ![t] = Undefined]
  /\ UNCHANGED <<now, nextId, currentUser, link, lastConnected, hidden, armed,
                 due, chatTabs, error, lastCall, view, sweep>>
  /\ UNCHANGED auxVars

\* The chat container renders again with a new hook object among the
\* dependencies of its unmount effect: the effect's cleanup runs.
Rerender(t) ==
  /\ pc[t] = "mounted"
  /\ link[t]
  /\ currentUser[t] \in DOMAIN users \cup DOMAIN presence \cup typing
  /\ EffectCleanup(t)
  /\ UNCHANGED <<now, nextId, pc, currentUser, link, ctrlVars, armed, due,
                 chatTabs, error, lastCall, sweep>>
  /\ UNCHANGED auxVars

\* set(ref(`.../{id}/lastSeen`), ts) and set(ref(`.../{id}/isOnline`), true) on
\* a User record: an absent record gets these two fields alone.
TouchUser(U, id, ts) ==
  IF id \in DOMAIN U
  THEN [U EXCEPT ![id].lastSeen = ts, ![id].isOnline = "true"]
  ELSE Put(U, id, [complete |-> FALSE, lastSeen |-> ts, isOnline |-> "true",
                   connectionState |-> "undef"])

\* The same on a Presence record.
TouchPresence(P, id, ts) ==
  IF id \in DOMAIN P
  THEN [P EXCEPT ![id].lastSeen = ts, ![id].isOnline = "true"]
  ELSE Put(P, id, [isOnline |-> "true", lastSeen |-> ts,
                   connectionState |-> "undef", gracePeriodActive |-> "undef",
                   disconnectTime |-> Undefined])

\* handleTyping: the TypingStatus is written and updateLastSeen(userId) runs.
StartTyping(t) ==
  /\ pc[t] = "mounted"
  /\ link[t]
  /\ currentUser[t] \notin typing
  /\ typing' = typing \cup {currentUser[t]}
  /\ users' = TouchUser(users, currentUser[t], now)
  /\ presence' = TouchPresence(presence, currentUser[t], now)
  /\ UNCHANGED <<now, nextId, pc, currentUser, link, ctrlVars, armed, due,
                 chatTabs, error, lastCall, sweep>>
  /\ UNCHANGED auxVars

\* handleStopTyping: the TypingStatus is deleted.
StopTyping(t) ==
  /\ pc[t] = "mounted"
  /\ link[t]
  /\ currentUser[t] \in typing
  /\ typing' = typing \ {currentUser[t]}
  /\ UNCHANGED <<users, presence, now, nextId, pc, currentUser, link, ctrlVars,
                 armed, due, chatTabs, error, lastCall, sweep>>
  /\ UNCHANGED auxVars

\* handleInputChange of MessageInput with a text that is not blank: onTyping()
\* is handleTyping, which calls startTyping of the typing hook and
\* setUserTyping(id, name, true) of the chat hook; both set() the TypingStatus
\* and start their timeout over, and setUserTyping calls updateLastSeen; then
\* the input starts its own timeout over.
InputChange(t) ==
  /\ pc[t] = "mounted"
  /\ link[t]
  /\ typing' = typing \cup {currentUser[t]}
  /\ users' = TouchUser(users, currentUser[t], now)
  /\ presence' = TouchPresence(presence, currentUser[t], now)
  /\ typist' = [typist EXCEPT ![t] =
       [inputTimer |-> now + InputStopDelay,
        hookTimers |-> (@.hookTimers \ {@.hookRef}) \cup {now + TYPING_TIMEOUT},
        hookRef |-> now + TYPING_TIMEOUT,
        chatTimers |-> (@.chatTimers \ {@.chatRef}) \cup {now + ChatTypingDelay},
        chatRef |-> now + ChatTypingDelay,
        lastEvent |-> now]]
  /\ UNCHANGED <<now, nextId, pc, currentUser, link, ctrlVars, armed, due,
                 chatTabs, error, lastCall, sweep>>
  /\ UNCHANGED <<failsafe, chat, conn, mainTab, mgr, userWrite, failures, tabsRead>>

\* The timeout of MessageInput expires: onStopTyping() is handleStopTyping,
\* which calls stopTyping of the typing hook and setUserTyping(id, name,
\* false); both set() the TypingStatus to null and, once the store has
\* answered, clear their timeout. A disconnected client gets no answer.
InputTimerFire(t) ==
  /\ pc[t] = "mounted"
  /\ typist[t].inputTimer = now
  /\ typing' = IF link[t] THEN typing \ {currentUser[t]} ELSE typing
  /\ typist' = [typist EXCEPT ![t] =
       IF link[t]
       THEN [@ EXCEPT !.inputTimer = Undefined,
                      !.hookTimers = @ \ {typist[t].hookRef},
                      !.hookRef = Undefined,
                      !.chatTimers = @ \ {typist[t].chatRef}]
       ELSE [@ EXCEPT !.inputTimer = Undefined]]
  /\ UNCHANGED <<users, presence, now, nextId, pc, currentUser, link, ctrlVars,
                 armed, due, chatTabs, error, lastCall, sweep>>
  /\ UNCHANGED <<failsafe, chat, conn, mainTab, mgr, userWrite, failures, tabsRead>>

\* The timeout of the typing hook expires: stopTyping().
HookTimerFire(t) ==
  /\ pc[t] = "mounted"
  /\ now \in typist[t].hookTimers
  /\ typing' = IF link[t] THEN typing \ {currentUser[t]} ELSE typing
  /\ typist' = [typist EXCEPT ![t] =
       IF link[t]
       THEN [@ EXCEPT !.hookTimers = @ \ {now, typist[t].hookRef},
                      !.hookRef = Undefined]
       ELSE [@ EXCEPT !.hookTimers = @ \ {now}]]
  /\ UNCHANGED <<users, presence, now, nextId, pc, currentUser, link, ctrlVars,
                 armed, due, chatTabs, error, lastCall, sweep>>
  /\ UNCHANGED <<failsafe, chat, conn, mainTab, mgr, userWrite, failures, tabsRead>>

\* The timeout of setUserTyping expires: set(typing/{userId}, null).
ChatTimerFire(t) ==
  /\ pc[t] = "mounted"
  /\ now \in typist[t].chatTimers
  /\ typing' = IF link[t] THEN typing \ {currentUser[t]} ELSE typing
  /\ typist' = [typist EXCEPT ![t].chatTimers = @ \ {now}]
  /\ UNCHANGED <<users, presence, now, nextId, pc, currentUser, link, ctrlVars,
                 armed, due, chatTabs, error, lastCall, sweep>>
  /\ UNCHANGED <<failsafe, chat, conn, mainTab, mgr, userWrite, failures, tabsRead>>

\* The users listener of initializeListeners gets a snapshot: the records that
\* lack id, name or color are deleted, the others are listed.
Incomplete(U) == {i \in DOMAIN U : ~U[i].complete}

ObserveUsers(t) ==
  /\ pc[t] = "mounted"
  /\ link[t]
  /\ view' = [view EXCEPT ![t] = DOMAIN users \ Incomplete(users)]
  /\ users' = [i \in DOMAIN users \ Incomplete(users) |-> users[i]]
  /\ UNCHANGED <<presence, typing, now, nextId, pc, currentUser, link,
                 lastConnected, hidden, timeoutRef, timers, beatAt, armed, due,
                 chatTabs, error, lastCall, sweep>>
  /\ UNCHANGED auxVars

\* ------------------------------------------------------------ the sweeper
\* checkUserTabs of a sweeper: the registry of the sweeper's own browser holds
\* an entry of the user that is less than a minute old.  The tabs of the model
\* share one browser; a sweeper of another browser sees none of their entries.
checkUserTabs(local, id) ==
  /\ local
  /\ \E o \in DOMAIN chatTabs :
       /\ chatTabs[o].userId = id
       /\ now - chatTabs[o].timestamp < SweepTabWindow

\* presenceData?.lastSeen || user.lastSeen
StoredLastSeen(id) ==
  IF id \in DOMAIN presence /\ presence[id].lastSeen # Undefined
  THEN presence[id].lastSeen
  ELSE IF id \in DOMAIN users THEN users[id].lastSeen ELSE Undefined

\* presenceData?.disconnectTime
StoredDisconnectTime(id) ==
  IF id \in DOMAIN presence THEN presence[id].disconnectTime ELSE Undefined

\* now - lastSeen >= USER_TIMEOUT, where an undefined lastSeen makes the
\* comparison `timeSinceLastSeen < USER_TIMEOUT` false.
TimedOut(lastSeen) == lastSeen = Undefined \/ now - lastSeen >= USER_TIMEOUT

\* An evaluation that does not look at the time of the disconnect.
IsCandidate_NoGrace(local, id) ==
  /\ ~checkUserTabs(local, id)
  /\ TimedOut(StoredLastSeen(id))

\* evaluateUser: whether the user becomes a candidate.
IsCandidate(local, id) ==
  /\ ~checkUserTabs(local, id)
  /\ ~(/\ StoredDisconnectTime(id) # Undefined
       /\ now - StoredDisconnectTime(id) < GRACE_PERIOD)
  /\ TimedOut(StoredLastSeen(id))

\* The candidates of a scan, in the order of the snapshot's entries.
RECURSIVE Candidates(_, _)
Candidates(local, ids) ==
  IF ids = {} THEN <<>>
  ELSE LET i == CHOOSE x \in ids : \A y \in ids : x <= y
       IN (IF IsCandidate(local, i)
           THEN <<[userId |-> i, lastSeen |-> StoredLastSeen(i)]>>
           ELSE <<>>) \o Candidates(local, ids \ {i})

\* performCleanup: the scan of all users; the candidates are processed after
\* the delay of 5 seconds, by a timeout that nothing keeps a handle of.
performCleanup(w, local) ==
  LET found == Candidates(local, DOMAIN users)
  IN IF found = <<>>
     THEN [w EXCEPT !.pc = "idle", !.local = local, !.cands = <<>>,
                    !.processAt = Undefined, !.del = Undefined,
                    !.verdict = IF DOMAIN users = {} THEN "none" ELSE "kept"]
     ELSE [w EXCEPT !.pc = "wait", !.local = local, !.cands = found,
                    !.processAt = now + VerifyDelay, !.del = Undefined,
                    !.verdict = "none"]

\* A tick of the interval that startCleanup has set and stopCleanup clears.
SweepScan(s, local) ==
  /\ sweep[s].pc = "idle"
  /\ ~sweep[s].stopped
  /\ sweep' = [sweep EXCEPT ![s] = performCleanup(@, local)]
  /\ UNCHANGED <<storeVars, now, nextId, pc, currentUser, link, ctrlVars, armed,
                 due, chatTabs, error, lastCall>>
  /\ UNCHANGED auxVars

\* A processing of the candidates that does not verify them again.
Verdict_NoRecheck(local, cand) ==
  IF cand.userId \notin DOMAIN users THEN "absent" ELSE "remove"

\* The decision of processCleanupCandidates on one candidate, from the records
\* it has just read: "absent", "active", "tab", "remove" or "wait".
Verdict(local, cand) ==
  IF cand.userId \notin DOMAIN users THEN "absent"
  ELSE IF StoredLastSeen(cand.userId) > cand.lastSeen THEN "active"
  ELSE IF checkUserTabs(local, cand.userId) THEN "tab"
  ELSE IF TimedOut(StoredLastSeen(cand.userId)) THEN "remove"
  ELSE "wait"

\* What is left to do after the head candidate, v being what was logged of it.
NextCandidate(w, v) ==
  IF Len(w.cands) <= 1
  THEN [w EXCEPT !.pc = "idle", !.cands = <<>>, !.processAt = Undefined,
                 !.del = Undefined, !.verdict = v]
  ELSE [w EXCEPT !.pc = "verify", !.cands = Tail(w.cands),
                 !.processAt = Undefined, !.del = Undefined, !.verdict = v]

\* The first run of startCleanup, a timeout of 30 seconds that stopCleanup
\* does not clear.
SweepFirstRun(s, local) ==
  /\ sweep[s].pc = "idle"
  /\ sweep[s].firstRun = "pending"
  /\ sweep' = [sweep EXCEPT ![s] =
       performCleanup([@ EXCEPT !.firstRun = "done"], local)]
  /\ UNCHANGED <<storeVars, now, nextId, pc, currentUser, link, ctrlVars, armed,
                 due, chatTabs, error, lastCall>>
  /\ UNCHANGED auxVars

\* stopCleanup, the cleanup of the sweeper's effect: the interval is cleared.
StopCleanup(s) ==
  /\ ~sweep[s].stopped
  /\ sweep' = [sweep EXCEPT ![s].stopped = TRUE]
  /\ UNCHANGED <<storeVars, now, nextId, pc, currentUser, link, ctrlVars, armed,
                 due, chatTabs, error, lastCall>>
  /\ UNCHANGED auxVars

\* A processing that trusts the scan and reads nothing again.
SweepVerify_NoRead(s) ==
  /\ \/ sweep[s].pc = "wait" /\ now = sweep[s].processAt
     \/ sweep[s].pc = "verify"
  /\ sweep' = [sweep EXCEPT ![s] =
       [@ EXCEPT !.pc = "delete", !.processAt = Undefined,
                 !.del = Head(sweep[s].cands).userId, !.verdict = "remove"]]
  /\ UNCHANGED <<storeVars, now, nextId, pc, currentUser, link, ctrlVars, armed,
                 due, chatTabs, error, lastCall>>
  /\ UNCHANGED auxVars

\* processCleanupCandidates reads the records of the next candidate and decides.
SweepVerify(s) ==
  /\ \/ sweep[s].pc = "wait" /\ now = sweep[s].processAt
     \/ sweep[s].pc = "verify"
  /\ LET cand == Head(sweep[s].cands)
     IN sweep' = [sweep EXCEPT ![s] =
          IF Verdict(sweep[s].local, cand) = "remove"
          THEN [@ EXCEPT !.pc = "delete", !.processAt = Undefined,
                         !.del = cand.userId, !.verdict = "remove"]
          ELSE NextCandidate(@, Verdict(sweep[s].local, cand))]
  /\ UNCHANGED <<storeVars, now, nextId, pc, currentUser, link, ctrlVars, armed,
                 due, chatTabs, error, lastCall>>
  /\ UNCHANGED auxVars

\* processCleanupCandidates deletes the records of the candidate it verified.
SweepDelete(s) ==
  /\ sweep[s].pc = "delete"
  /\ DeleteRecords(sweep[s].del)
  /\ sweep' = [sweep EXCEPT ![s] = NextCandidate(@, "removed")]
  /\ UNCHANGED <<now, nextId, pc, currentUser, link, ctrlVars, armed, due,
                 chatTabs, error, lastCall>>
  /\ UNCHANGED auxVars

\* ------------------------------------------------------ the failsafe sweep
\* now - (USER_TIMEOUT * 2) and GRACE_PERIOD * 2 of conservativeCleanup.
ExtremeTimeout == USER_TIMEOUT * 2
ExtremeGrace == GRACE_PERIOD * 2

\* A failsafe without a threshold.
IsExtremelyOld_NoThreshold(lastSeen) ==
  lastSeen # Undefined /\ lastSeen < now

\* isExtremelyOld: lastSeen < extremeTimeoutThreshold, which is false of an
\* undefined lastSeen.
IsExtremelyOld(lastSeen) ==
  lastSeen # Undefined /\ lastSeen < now - ExtremeTimeout

\* gracePeriodExpired: no disconnectTime, or one older than twice GRACE_PERIOD.
GracePeriodExpired(id) ==
  \/ StoredDisconnectTime(id) = Undefined
  \/ now - StoredDisconnectTime(id) > ExtremeGrace

\* The users the loop of conservativeCleanup deletes, decided from the two
\* snapshots and the one Date.now() it has taken before the loop.
FailsafeVictims ==
  {i \in DOMAIN users : IsExtremelyOld(StoredLastSeen(i)) /\ GracePeriodExpired(i)}

\* A run of the interval of conservativeCleanup: it reads users and presence
\* and decides.
FailsafeScan ==
  /\ failsafe.pc = "idle"
  /\ failsafe' = IF FailsafeVictims = {} THEN IdleFailsafe
                 ELSE [pc |-> "delete", victims |-> FailsafeVictims]
  /\ UNCHANGED <<users, presence, typing, now, nextId, pc, currentUser, link,
                 lastConnected, hidden, timeoutRef, timers, beatAt, armed, due,
                 chatTabs, error, lastCall, view, sweep, chat, conn>>
  /\ UNCHANGED <<mainTab, mgr, lateVars>>

\* The loop deletes the records of the next user it has decided on.
FailsafeDelete ==
  /\ failsafe.pc = "delete"
  /\ LET v == CHOOSE x \in failsafe.victims : \A y \in failsafe.victims : x <= y
     IN /\ DeleteRecords(v)
        /\ failsafe' = IF failsafe.victims = {v} THEN IdleFailsafe
                       ELSE [failsafe EXCEPT !.victims = @ \ {v}]
  /\ UNCHANGED <<now, nextId, pc, currentUser, link, lastConnected, hidden,
                 timeoutRef, timers, beatAt, armed, due, chatTabs, error,
                 lastCall, view, sweep, chat, conn>>
  /\ UNCHANGED <<mainTab, mgr, lateVars>>

\* ------------------------------------------------------ sending messages
\* messageRateLimit.filter(timestamp => timestamp > oneMinuteAgo)
RecentMessages(limit) == SelectSeq(limit, LAMBDA ts : ts > now - RateWindow)

\* recentMessages.length >= 5
RateExceeded(recent) == Len(recent) >= RateLimit

\* handleSendMessage up to the end of sendMessage: the rate check on the
\* messageRateLimit of the render, then the message is set() and updateLastSeen
\* writes; the call then waits for the store.
HandleSendMessage(t, k) ==
  /\ pc[t] = "mounted"
  /\ link[t]
  /\ chat[t].calls[k] = NoSend
  /\ Len(chat[t].sent) < MaxMessages
  /\ LET recent == RecentMessages(chat[t].messageRateLimit)
     IN IF RateExceeded(recent)
        THEN /\ chat' = [chat EXCEPT ![t].toast = TRUE]
             /\ UNCHANGED <<users, presence>>
        ELSE /\ chat' = [chat EXCEPT ![t].calls[k] = [at |-> now, recent |-> recent],
                                     ![t].sent = Append(@, now),
                                     ![t].toast = FALSE]
             /\ users' = TouchUser(users, currentUser[t], now)
             /\ presence' = TouchPresence(presence, currentUser[t], now)
  /\ UNCHANGED <<typing, now, nextId, pc, currentUser, link, ctrlVars, armed,
                 due, chatTabs, error, lastCall, sweep, failsafe, conn>>
  /\ UNCHANGED <<mainTab, mgr, lateVars>>

\* The rest of handleSendMessage after the await:
\* setMessageRateLimit([...recentMessages, now]) with the values of the call,
\* then typingHook.stopTyping().
SendComplete(t, k) ==
  /\ pc[t] = "mounted"
  /\ chat[t].calls[k] # NoSend
  /\ chat' = [chat EXCEPT
       ![t].messageRateLimit = Append(chat[t].calls[k].recent, chat[t].calls[k].at),
       ![t].calls[k] = NoSend]
  /\ typing' = IF link[t] THEN typing \ {currentUser[t]} ELSE typing
  /\ UNCHANGED <<users, presence, now, nextId, pc, currentUser, link, ctrlVars,
                 armed, due, chatTabs, error, lastCall, sweep, failsafe, conn>>
  /\ UNCHANGED <<mainTab, mgr, lateVars>>

\* ------------------------------------------------- the connection manager
\* The variables useConnectionManager does not touch.
notConn ==
  <<users, presence, typing, now, nextId, pc, currentUser, link, lastConnected,
    hidden, timeoutRef, timers, beatAt, armed, due, chatTabs, error, lastCall,
    view, sweep, failsafe, chat, mainTab, mgr, lateVars>>

\* initializeConnection: cleanup() clears the timeout of retryTimeoutRef and
\* the listener, then a new listener is set on .info/connected.
initializeConnection(c) ==
  [c EXCEPT !.timer = {}, !.listening = TRUE, !.delivered = "none"]

\* setConnectionState with a retryCount: when the count changes, the render
\* makes a new initializeConnection and the effect runs it.
setRetryCount(c, n) ==
  IF n = c.retryCount THEN c
  ELSE initializeConnection([c EXCEPT !.retryCount = n])

\* A scheduleRetry that stops one retry later.
scheduleRetry_OneMore(c, k) ==
  IF k > maxRetries THEN c
  ELSE [c EXCEPT !.leaked = @ \cup c.timer,
                 !.timer = {[k |-> k, delay |-> baseRetryDelay * 2^k]}]

\* scheduleRetry(retryCount): nothing at maxRetries, else a timeout of
\* baseRetryDelay * 2^retryCount whose handle replaces the one in
\* retryTimeoutRef.
scheduleRetry(c, k) ==
  IF k >= maxRetries THEN c
  ELSE [c EXCEPT !.leaked = @ \cup c.timer,
                 !.timer = {[k |-> k, delay |-> baseRetryDelay * 2^k]}]

\* The listener gets a value of .info/connected that differs from the last.
ConnValue(v) ==
  /\ conn.listening
  /\ conn.delivered # v
  /\ conn' = IF v = "up"
             THEN setRetryCount([conn EXCEPT !.isConnected = TRUE,
                                             !.delivered = "up",
                                             !.timer = {}], 0)
             ELSE scheduleRetry([conn EXCEPT !.isConnected = FALSE,
                                             !.delivered = "down"],
                                conn.retryCount)
  /\ UNCHANGED notConn

\* The error callback of the listener: the store has cancelled the listener.
ConnError ==
  /\ conn.listening
  /\ conn' = scheduleRetry([conn EXCEPT !.listening = FALSE], conn.retryCount)
  /\ UNCHANGED notConn

\* A retry timeout fires: retryCount becomes the count it was scheduled with
\* plus one.
RetryFire ==
  /\ \E r \in conn.timer \cup conn.leaked :
       conn' = setRetryCount([conn EXCEPT !.timer = @ \ {r}, !.leaked = @ \ {r}],
                             r.k + 1)
  /\ UNCHANGED notConn

\* handleOnline, and handleVisibilityChange of a page that is shown while
\* disconnected: initializeConnection().
Reinitialize ==
  /\ conn' = initializeConnection(conn)
  /\ UNCHANGED notConn

\* handleOffline
HandleOffline ==
  /\ conn.isConnected
  /\ conn' = [conn EXCEPT !.isConnected = FALSE]
  /\ UNCHANGED notConn

\* ---------------------------------------------------- the multi-tab manager
\* The variables useMultiTabManager does not touch.
notMgr ==
  <<users, presence, typing, now, nextId, pc, currentUser, link, lastConnected,
    hidden, timeoutRef, timers, beatAt, armed, due, error, lastCall, view,
    sweep, failsafe, chat, conn, lateVars>>

\* updateTabInfo: the tab's entry of 'chat-tabs' is replaced by a fresh one and
\* the entries of TAB_TIMEOUT and older are dropped.
updateTabInfo(t, reg) ==
  LET updated == Put(Remove(reg, t), t, [userId |-> mgr[t].userId, timestamp |-> now])
      active == {o \in DOMAIN updated : now - updated[o].timestamp < TAB_TIMEOUT}
  IN [o \in active |-> updated[o]]

\* The cleanup timeout of initialize: the entries of TAB_TIMEOUT and older are
\* dropped.
PurgeTabs(reg) ==
  [o \in {x \in DOMAIN reg : now - reg[x].timestamp < TAB_TIMEOUT} |-> reg[o]]

\* checkMainTab claims the main tab when there is none, when it is of another
\* user, or when its timestamp is more than TAB_TIMEOUT old.
ClaimsMain(u) ==
  \/ mainTab = NoMain
  \/ mainTab.userId # u
  \/ now - mainTab.timestamp > TAB_TIMEOUT

\* checkMainTab: what it leaves in 'chat-main-tab'.  The timestamp of a main
\* tab that is not claimed stays as it is.
MainTabAfter(t, u) ==
  IF ClaimsMain(u) THEN [tabId |-> t, userId |-> u, timestamp |-> now]
  ELSE mainTab

\* checkMainTab: what it returns.
checkMainTab(t, u) == ClaimsMain(u) \/ mainTab.tabId = t

\* The storage events of a write of tab t: the other tabs with a manager get
\* one.
Notify(M, t) ==
  [o \in Tabs |-> IF o # t /\ M[o].pc = "on" THEN [M[o] EXCEPT !.notified = TRUE]
                  ELSE M[o]]

\* initialize of the manager of a tab opened for user u.
MgrInitialize(t, u) ==
  /\ mgr[t].pc = "off"
  /\ mainTab' = MainTabAfter(t, u)
  /\ mgr' = LET M == [mgr EXCEPT ![t] =
                       [pc |-> "on", userId |-> u, isMain |-> checkMainTab(t, u),
                        beatAt |-> now + TabHeartbeatInterval,
                        cleanupAt |-> now + TabCleanupDelay, notified |-> FALSE]]
            IN IF ClaimsMain(u) THEN Notify(M, t) ELSE M
  /\ UNCHANGED chatTabs
  /\ UNCHANGED notMgr

\* A tick of the manager's heartbeat: updateTabInfo, then checkMainTab.
MgrHeartbeat(t) ==
  /\ mgr[t].pc = "on"
  /\ now = mgr[t].beatAt
  /\ chatTabs' = updateTabInfo(t, chatTabs)
  /\ mainTab' = MainTabAfter(t, mgr[t].userId)
  /\ mgr' = Notify([mgr EXCEPT ![t].isMain = checkMainTab(t, mgr[t].userId),
                               ![t].beatAt = now + TabHeartbeatInterval], t)
  /\ UNCHANGED notMgr

\* handleStorageChange: another tab has written 'chat-tabs' or
\* 'chat-main-tab'.
MgrStorage(t) ==
  /\ mgr[t].pc = "on"
  /\ mgr[t].notified
  /\ mainTab' = MainTabAfter(t, mgr[t].userId)
  /\ mgr' = LET M == [mgr EXCEPT ![t].isMain = checkMainTab(t, mgr[t].userId),
                                 ![t].notified = FALSE]
            IN IF ClaimsMain(mgr[t].userId) THEN Notify(M, t) ELSE M
  /\ UNCHANGED chatTabs
  /\ UNCHANGED notMgr

\* The cleanup timeout of initialize, 10 seconds after it.
MgrPurge(t) ==
  /\ mgr[t].pc = "on"
  /\ now = mgr[t].cleanupAt
  /\ chatTabs' = PurgeTabs(chatTabs)
  /\ mgr' = LET M == [mgr EXCEPT ![t].cleanupAt = Undefined]
            IN IF PurgeTabs(chatTabs) # chatTabs THEN Notify(M, t) ELSE M
  /\ UNCHANGED mainTab
  /\ UNCHANGED notMgr

\* cleanup, on beforeunload and on unmount: the timers are cleared, the tab's
\* entry removed, and 'chat-main-tab' removed when the tab took itself for
\* the main tab.
MgrClose(t) ==
  /\ mgr[t].pc = "on"
  /\ chatTabs' = Remove(chatTabs, t)
  /\ mainTab' = IF mgr[t].isMain THEN NoMain ELSE mainTab
  /\ mgr' = Notify([mgr EXCEPT ![t] = [NoManager EXCEPT !.pc = "closed"]], t)
  /\ UNCHANGED notMgr

\* The tab goes away with no handler run.
MgrGone(t) ==
  /\ mgr[t].pc = "on"
  /\ mgr' = [mgr EXCEPT ![t] = [NoManager EXCEPT !.pc = "closed"]]
  /\ UNCHANGED <<chatTabs, mainTab>>
  /\ UNCHANGED notMgr

\* ---------------------------------------------------------------- the clock
\* The heartbeat of a disconnected controller does nothing, so the clock may
\* pass it: the interval goes on from the first tick not before the new time.
AlignBeat(b, t) ==
  IF b = Undefined \/ b >= t THEN b
  ELSE b + HEARTBEAT_INTERVAL * (((t - b - 1) \div HEARTBEAT_INTERVAL) + 1)

\* Time passes.  No timer is passed over: the callbacks of the timers that are
\* due run first.
AdvanceUpTo(d, horizon) ==
  /\ now + d <= horizon
  /\ d = Tick => ((now - Tick) % USER_TIMEOUT) + d <= FineWindow
  /\ \A t \in Tabs :
       /\ \A dl \in timers[t] : now + d <= dl
       /\ (pc[t] = "mounted" /\ lastConnected[t]) => now + d <= beatAt[t]
  /\ \A s \in Sweepers : sweep[s].pc = "wait" => now + d <= sweep[s].processAt
  /\ now' = now + d
  /\ beatAt' = [t \in Tabs |-> AlignBeat(beatAt[t], now + d)]
  /\ UNCHANGED <<storeVars, nextId, pc, currentUser, link, lastConnected, hidden,
                 timeoutRef, timers, view, armed, due, chatTabs, error, lastCall,
                 sweep>>
  /\ UNCHANGED auxVars

\* The clock of the specifications that end after MaxJumps timeouts.
Advance(d) == AdvanceUpTo(d, MaxTime)

\* ------------------------------------------------------- specifications
\* The presence controllers of the tabs of one browser, their connections and
\* the onDisconnect operations of the store.
Next ==
  \/ JoinRead(1)
  \/ \E t \in Tabs :
       \/ JoinWriteUser(t)
       \/ JoinWritePresence(t)
       \/ JoinArm(t)
       \/ Mount(t)
       \/ \E o \in Tabs : OpenTabForUser(t, o)
       \/ ConnectionLost(t)
       \/ ConnectionRestored(t)
       \/ DebounceFire(t)
       \/ Heartbeat(t)
       \/ \E landed \in {"none", "presence", "both"} : CloseTab(t, landed)
       \/ TabGone(t)
       \/ TriggerFire(t)
  \/ Advance(Tick)

Spec == Init /\ [][Next]_vars

\* The sweeper at work on the users of two tabs, over a time longer than
\* USER_TIMEOUT.
NextSweep ==
  \/ JoinRead(1)
  \/ \E t \in Tabs :
       \/ JoinWriteUser(t)
       \/ JoinWritePresence(t)
       \/ JoinArm(t)
       \/ Mount(t)
       \/ StartTyping(t)
       \/ ConnectionLost(t)
       \/ ConnectionRestored(t)
       \/ DebounceFire(t)
       \/ Heartbeat(t)
       \/ \E landed \in {"none", "presence", "both"} : CloseTab(t, landed)
       \/ TabGone(t)
       \/ TriggerFire(t)
       \/ LeaveRoom(t)
  \/ \E local \in BOOLEAN : SweepScan(1, local)
  \/ SweepVerify(1)
  \/ SweepDelete(1)
  \/ Advance(Tick)
  \/ Advance(USER_TIMEOUT)

SpecSweep == Init /\ [][NextSweep]_vars

\* Time passes and no disconnected period reaches the debounce window: the
\* clock stays short of every pending debounce deadline.
AdvanceWithin(d) ==
  /\ \A t \in Tabs : \A dl \in timers[t] : now + d < dl
  /\ Advance(d)

\* A joined client whose connection flaps, every disconnected period being
\* shorter than DISCONNECT_DEBOUNCE.
NextFlap ==
  \/ JoinRead(1)
  \/ \E t \in Tabs :
       \/ JoinWriteUser(t)
       \/ JoinWritePresence(t)
       \/ JoinArm(t)
       \/ Mount(t)
       \/ ConnectionLost(t)
       \/ ConnectionRestored(t)
       \/ Heartbeat(t)
       \/ VisibilityChange(t)
       \/ TriggerFire(t)
  \/ AdvanceWithin(Tick)

SpecFlap == Init /\ [][NextFlap]_vars

\* Joins that may stop half way, the chat containers of the tabs that joined
\* and their users listeners.
NextHeal ==
  \E t \in Tabs :
    \/ JoinRead(t)
    \/ JoinWriteUser(t)
    \/ JoinWritePresence(t)
    \/ JoinArm(t)
    \/ Mount(t)
    \/ TabGone(t)
    \/ TriggerFire(t)
    \/ Rerender(t)
    \/ StartTyping(t)
    \/ ObserveUsers(t)

SpecHeal == Init /\ [][NextHeal]_vars

\* Two tabs of one user, one of them leaving the room: the chat container
\* unmounts, and the connection of the page may drop afterwards.
NextLeave ==
  \/ JoinRead(1)
  \/ \E t \in Tabs :
       \/ JoinWriteUser(t)
       \/ JoinWritePresence(t)
       \/ JoinArm(t)
       \/ Mount(t)
       \/ \E o \in Tabs : OpenTabForUser(t, o)
       \/ StartTyping(t)
       \/ LeaveRoom(t)
       \/ ConnectionLost(t)
       \/ ConnectionRestored(t)
       \/ TriggerFire(t)

SpecLeave == Init /\ [][NextLeave]_vars

\* Two tabs of one user that go away without a leave, the store running their
\* disconnect operations at some later time, and the sweeps.
NextGrace ==
  \/ JoinRead(1)
  \/ \E t \in Tabs :
       \/ JoinWriteUser(t)
       \/ JoinWritePresence(t)
       \/ JoinArm(t)
       \/ Mount(t)
       \/ \E o \in Tabs : OpenTabForUser(t, o)
       \/ Heartbeat(t)
       \/ TabGone(t)
       \/ TriggerFire(t)
  \/ \E local \in BOOLEAN : SweepScan(1, local)
  \/ SweepVerify(1)
  \/ SweepDelete(1)
  \/ Advance(Tick)
  \/ Advance(USER_TIMEOUT)

SpecGrace == Init /\ [][NextGrace]_vars

\* Time passes by the window of hasOtherActiveTabs at once, up to the window of
\* the sweeper's checkUserTabs past the fine-grained part of the clock.
AdvanceWindow ==
  /\ now <= FineWindow + TabActiveWindow
  /\ Advance(TabActiveWindow)

\* The tab registry of one browser over a minute and more: tabs of one user
\* open, crash, lose and regain their connection and register themselves on
\* their heartbeats.
NextRegistry ==
  \/ JoinRead(1)
  \/ \E t \in Tabs :
       \/ JoinWriteUser(t)
       \/ JoinWritePresence(t)
       \/ JoinArm(t)
       \/ Mount(t)
       \/ \E o \in Tabs : OpenTabForUser(t, o)
       \/ ConnectionLost(t)
       \/ ConnectionRestored(t)
       \/ DebounceFire(t)
       \/ Heartbeat(t)
       \/ TabGone(t)
  \/ Advance(Tick)
  \/ AdvanceWindow

SpecRegistry == Init /\ [][NextRegistry]_vars

\* Two clients of other browsers sweep the store at the same time, over the
\* records of two users whose tabs have gone.
NextDuel ==
  \/ \E t \in Tabs :
       \/ JoinRead(t)
       \/ JoinWriteUser(t)
       \/ JoinWritePresence(t)
       \/ JoinArm(t)
       \/ TabGone(t)
       \/ TriggerFire(t)
  \/ \E s \in Sweepers :
       \/ SweepScan(s, FALSE)
       \/ SweepVerify(s)
       \/ SweepDelete(s)
  \/ Advance(Tick)
  \/ Advance(USER_TIMEOUT)

SpecDuel == Init /\ [][NextDuel]_vars

\* A client whose chat container and sweeper are torn down while the records
\* of users that have gone are in the store.
NextStop ==
  \/ JoinRead(1)
  \/ \E t \in Tabs :
       \/ JoinWriteUser(t)
       \/ JoinWritePresence(t)
       \/ JoinArm(t)
       \/ Mount(t)
       \/ ConnectionLost(t)
       \/ DebounceFire(t)
       \/ Heartbeat(t)
       \/ LeaveRoom(t)
       \/ TabGone(t)
       \/ TriggerFire(t)
  \/ SweepScan(1, FALSE)
  \/ SweepFirstRun(1, FALSE)
  \/ SweepVerify(1)
  \/ SweepDelete(1)
  \/ StopCleanup(1)
  \/ Advance(Tick)
  \/ Advance(USER_TIMEOUT)

SpecStop == Init /\ [][NextStop]_vars

\* The clock of the failsafe, which runs past twice USER_TIMEOUT.
FailsafeHorizon == Tick + FailsafeJumps * USER_TIMEOUT + FineWindow

\* The failsafe sweep of a chat client over the records of users whose tabs
\* are connected, disconnected or gone, for more than twice USER_TIMEOUT.
NextFailsafe ==
  \/ JoinRead(1)
  \/ \E t \in Tabs :
       \/ JoinWriteUser(t)
       \/ JoinWritePresence(t)
       \/ JoinArm(t)
       \/ Mount(t)
       \/ \E o \in Tabs : OpenTabForUser(t, o)
       \/ ConnectionLost(t)
       \/ ConnectionRestored(t)
       \/ DebounceFire(t)
       \/ Heartbeat(t)
       \/ TabGone(t)
       \/ TriggerFire(t)
  \/ FailsafeScan
  \/ FailsafeDelete
  \/ AdvanceUpTo(Tick, FailsafeHorizon)
  \/ AdvanceUpTo(USER_TIMEOUT, FailsafeHorizon)

SpecFailsafe == Init /\ [][NextFailsafe]_vars

\* The clock of the chat, which runs past the minute of the rate limit.
ChatHorizon == Tick + RateWindow + HEARTBEAT_INTERVAL

\* A user in the room who sends messages, calls of handleSendMessage
\* overlapping, for more than a minute, the clock going from one heartbeat to
\* the next.
NextChat ==
  \/ JoinRead(1)
  \/ \E t \in Tabs :
       \/ JoinWriteUser(t)
       \/ JoinWritePresence(t)
       \/ JoinArm(t)
       \/ Mount(t)
       \/ Heartbeat(t)
       \/ \E k \in 1..MaxInflight :
            \/ HandleSendMessage(t, k)
            \/ SendComplete(t, k)
  \/ AdvanceUpTo(HEARTBEAT_INTERVAL, ChatHorizon)

SpecChat == Init /\ [][NextChat]_vars

\* The connection manager of a client under the values and errors of
\* .info/connected and the events of the window.
NextConn ==
  \/ \E v \in {"up", "down"} : ConnValue(v)
  \/ ConnError
  \/ RetryFire
  \/ Reinitialize
  \/ HandleOffline

SpecConn == Init /\ [][NextConn]_vars

\* The step and the end of the clock of the multi-tab managers.
MgrTick == TabHeartbeatInterval \div 2
MgrHorizon == Tick + 2 * TAB_TIMEOUT

\* Time passes for the managers: no heartbeat and no cleanup timeout of a
\* manager is passed over.
MgrAdvance ==
  /\ \A t \in Tabs :
       mgr[t].pc = "on" =>
         /\ now + MgrTick <= mgr[t].beatAt
         /\ mgr[t].cleanupAt # Undefined => now + MgrTick <= mgr[t].cleanupAt
  /\ AdvanceUpTo(MgrTick, MgrHorizon)

\* The multi-tab managers of the tabs of one browser, the tabs opening at
\* different times, heartbeating, closing and going away.
NextMgr ==
  \/ \E t \in Tabs :
       \/ \E u \in Ids : MgrInitialize(t, u)
       \/ MgrHeartbeat(t)
       \/ MgrStorage(t)
       \/ MgrPurge(t)
       \/ MgrClose(t)
       \/ MgrGone(t)
  \/ MgrAdvance

SpecMgr == Init /\ [][NextMgr]_vars

\* A user in the room who hides and shows the page and types while the writes
\* of updatePresence are under way.
NextLastSeen ==
  \/ JoinRead(1)
  \/ \E t \in Tabs :
       \/ JoinWriteUser(t)
       \/ JoinWritePresence(t)
       \/ JoinArm(t)
       \/ Mount(t)
       \/ Heartbeat(t)
       \/ VisibilityChangeSet(t)
       \/ updatePresenceResume(t)
       \/ StartTyping(t)
       \/ StopTyping(t)
  \/ Advance(Tick)

SpecLastSeen == Init /\ [][NextLastSeen]_vars

\* The times from which the clock reaches the processing of the candidates
\* of a scan, VerifyDelay later.
InScanWindow(time) == ((time - Tick) % USER_TIMEOUT) + VerifyDelay <= FineWindow

\* A tick of the sweep's interval at such a time.
SweepScanInWindow(s) ==
  /\ InScanWindow(now)
  /\ SweepScan(s, FALSE)

\* The clock of the sweeps of abandoned records.  It stays at the times
\* where the sweep can scan, but for the wait of a scan's candidates, and
\* ends at such a time or after the processing of the last scan's candidates.
OrphanAdvance ==
  \/ InScanWindow(now + Tick) /\ AdvanceUpTo(Tick, FailsafeHorizon)
  \/ sweep[1].pc = "wait" /\ AdvanceUpTo(VerifyDelay, FailsafeHorizon)
  \/ InScanWindow(now) /\ AdvanceUpTo(USER_TIMEOUT, FailsafeHorizon)
  \/ ~InScanWindow(now) /\ AdvanceUpTo(USER_TIMEOUT - VerifyDelay, FailsafeHorizon)

\* The records of a user whose tab has gone, under the sweep and the failsafe
\* sweep of another client, for more than twice USER_TIMEOUT.
NextOrphan ==
  \/ JoinRead(1)
  \/ \E t \in Tabs :
       \/ JoinWriteUser(t)
       \/ JoinWritePresence(t)
       \/ JoinArm(t)
       \/ Mount(t)
       \/ TabGone(t)
       \/ TriggerFire(t)
  \/ SweepScanInWindow(1)
  \/ SweepVerify(1)
  \/ SweepDelete(1)
  \/ FailsafeScan
  \/ FailsafeDelete
  \/ OrphanAdvance

\* The intervals of the two sweeps go on ticking, the timeout of the
\* candidates' processing expires, the awaited store operations are answered,
\* and time passes.
FairOrphan ==
  /\ WF_vars(SweepScanInWindow(1))
  /\ WF_vars(SweepVerify(1))
  /\ WF_vars(SweepDelete(1))
  /\ WF_vars(FailsafeScan)
  /\ WF_vars(FailsafeDelete)
  /\ WF_vars(OrphanAdvance)

SpecOrphan == Init /\ [][NextOrphan]_vars /\ FairOrphan

\* The presence controller of a user whose store rejects writes: heartbeats,
\* visibility changes and debounce expiries, failing or not.
NextWriteFail ==
  \/ JoinRead(1)
  \/ \E t \in Tabs :
       \/ JoinWriteUser(t)
       \/ JoinWritePresence(t)
       \/ JoinArm(t)
       \/ Mount(t)
       \/ ConnectionLost(t)
       \/ ConnectionRestored(t)
       \/ DebounceFire(t)
       \/ Heartbeat(t)
       \/ VisibilityChange(t)
       \/ \E failure \in {"set", "update"} :
            \/ HeartbeatThrows(t, failure)
            \/ VisibilityChangeThrows(t, failure)
            \/ DebounceFireThrows(t, failure)
  \/ Advance(Tick)

SpecWriteFail == Init /\ [][NextWriteFail]_vars

\* Joins of two tabs that the store may reject at any of their steps, and
\* joins with an empty name.
NextJoinFail ==
  \/ \E t \in Tabs :
       \/ JoinInvalidName(t)
       \/ JoinRead(t)
       \/ JoinReadFails(t)
       \/ JoinWriteUser(t)
       \/ JoinWritePresence(t)
       \/ JoinArm(t)
       \/ \E k \in 0..2 : JoinFails(t, k)
       \/ TabGone(t)
       \/ TriggerFire(t)
  \/ Advance(Tick)

SpecJoinFail == Init /\ [][NextJoinFail]_vars

\* A tick of the heartbeat interval during which no other tab writes the
\* registry.
HeartbeatAlone(t) ==
  /\ ~tabsRead[t].read
  /\ Heartbeat(t)

\* The clock of the tabs that write the registry at the same time: three
\* heartbeat intervals.
RaceHorizon == Tick + 3 * HEARTBEAT_INTERVAL

\* Two tabs of one user in one browser whose registerTab calls interleave,
\* the tabs losing and regaining their connections.
NextRace ==
  \/ JoinRead(1)
  \/ \E t \in Tabs :
       \/ JoinWriteUser(t)
       \/ JoinWritePresence(t)
       \/ JoinArm(t)
       \/ Mount(t)
       \/ \E o \in Tabs : OpenTabForUser(t, o)
       \/ ConnectionLost(t)
       \/ ConnectionRestored(t)
       \/ DebounceFire(t)
       \/ HeartbeatGetItem(t)
       \/ HeartbeatSetItem(t)
       \/ HeartbeatAlone(t)
  \/ Advance(Tick)
  \/ AdvanceUpTo(HEARTBEAT_INTERVAL, RaceHorizon)

SpecRace == Init /\ [][NextRace]_vars

\* The clock of a user who types: it goes by the shortest of the typing
\* timeouts and passes none of them, for twice TYPING_TIMEOUT.
TypingHorizon == Tick + 2 * TYPING_TIMEOUT

TypingAdvance ==
  /\ \A t \in Tabs :
       \A dl \in {typist[t].inputTimer} \cup typist[t].hookTimers
                   \cup typist[t].chatTimers :
         dl = Undefined \/ now + InputStopDelay <= dl
  /\ AdvanceUpTo(InputStopDelay, TypingHorizon)

\* A user in the room who types, with pauses.
NextTyping ==
  \/ JoinRead(1)
  \/ \E t \in Tabs :
       \/ JoinWriteUser(t)
       \/ JoinWritePresence(t)
       \/ JoinArm(t)
       \/ Mount(t)
       \/ InputChange(t)
       \/ InputTimerFire(t)
       \/ HookTimerFire(t)
       \/ ChatTimerFire(t)
       \/ ConnectionLost(t)
  \/ TypingAdvance

SpecTyping == Init /\ [][NextTyping]_vars

\* A room that other browsers have filled, or filled but for one place.
InitCapacity ==
  /\ \E k \in {RoomCapacity - 1, RoomCapacity} :
       /\ users = [i \in (MaxUsers + 1)..(MaxUsers + k) |-> NewUser(Tick)]
       /\ presence = [i \in (MaxUsers + 1)..(MaxUsers + k) |-> NewPresence(Tick)]
  /\ typing = {}
  /\ now = Tick
  /\ nextId = 1
  /\ pc = [t \in Tabs |-> "idle"]
  /\ currentUser = [t \in Tabs |-> Undefined]
  /\ link = [t \in Tabs |-> TRUE]
  /\ lastConnected = [t \in Tabs |-> TRUE]
  /\ hidden = [t \in Tabs |-> FALSE]
  /\ timeoutRef = [t \in Tabs |-> Undefined]
  /\ timers = [t \in Tabs |-> {}]
  /\ beatAt = [t \in Tabs |-> Undefined]
  /\ armed = [t \in Tabs |-> NoTrigger]
  /\ due = [t \in Tabs |-> NoTrigger]
  /\ chatTabs = <<>>
  /\ error = [t \in Tabs |-> "none"]
  /\ lastCall = [t \in Tabs |-> NoCall]
  /\ view = [t \in Tabs |-> {}]
  /\ sweep = [s \in Sweepers |-> IdleSweep]
  /\ AuxInit

NextCapacity ==
  \E t \in Tabs :
    \/ JoinRead(t)
    \/ JoinWriteUser(t)
    \/ JoinWritePresence(t)
    \/ JoinArm(t)
    \/ Mount(t)
    \/ LeaveRoom(t)
    \/ TabGone(t)

SpecCapacity == InitCapacity /\ [][NextCapacity]_vars

\* ------------------------------------------------------------------ claims
\* The records of an id are all absent from the store.
Absent(i) == i \notin DOMAIN users /\ i \notin DOMAIN presence /\ i \notin typing

\* C1: while a joined client's connection flaps with every disconnected period
\* shorter than DISCONNECT_DEBOUNCE, its User and Presence records are never
\* deleted and its connectionState is only ever 'online' or 'away', the
\* disconnect triggers armed at join included.
C1_FlappingKeepsRecords ==
  \A t \in Tabs :
    pc[t] = "mounted" =>
      /\ currentUser[t] \in DOMAIN users
      /\ currentUser[t] \in DOMAIN presence
      /\ presence[currentUser[t]].connectionState \in {"online", "away"}

\* C2: a controller that is connected has no debounce timer pending and has
\* not made an 'offline' call for the disconnect it came back from, and the
\* step in which a disconnected controller reconnects clears the timer and
\* writes 'online'.
C2_ReconnectCancelsDebounce ==
  /\ [](\A t \in Tabs :
          (pc[t] = "mounted" /\ lastConnected[t]) =>
            /\ timers[t] = {}
            /\ lastCall[t].cause # "debounce")
  /\ [][\A t \in Tabs :
          (pc[t] = "mounted" /\ ~lastConnected[t] /\ ~link[t] /\ link'[t]) =>
            /\ timers'[t] = {}
            /\ lastCall'[t] = [state |-> "online", cause |-> "reconnect"]
            /\ currentUser[t] \in DOMAIN presence'
            /\ presence'[currentUser[t]].connectionState = "online"
            /\ presence'[currentUser[t]].lastSeen = now]_vars

\* A controller has reconnected inside the debounce window of its disconnect.
C2_Witness ==
  \E t \in Tabs :
    /\ pc[t] = "mounted"
    /\ lastCall[t] = [state |-> "online", cause |-> "reconnect"]
    /\ timers[t] = {}
    /\ now < Tick + DISCONNECT_DEBOUNCE

\* C3: when the triggers of a tab that ended without leaving fire, the
\* Presence record ends offline with gracePeriodActive true and disconnectTime
\* set, and the User record is exactly what it was.
C3_TriggersKeepUser ==
  [][\A t \in Tabs :
       (/\ pc[t] = "closed"
        /\ due[t].pres \in {"update", "removeThenUpdate"}
        /\ due'[t] = NoTrigger) =>
         /\ users' = users
         /\ due[t].id \in DOMAIN presence'
         /\ presence'[due[t].id].connectionState = "offline"
         /\ presence'[due[t].id].gracePeriodActive = "true"
         /\ presence'[due[t].id].disconnectTime # Undefined]_vars

\* C4: when the sweeper verifies a candidate whose stored lastSeen is greater
\* than the lastSeen observed at the scan, it does not go on to delete the
\* user and writes nothing.
C4_ActivityKeepsCandidate ==
  [][\A s \in Sweepers :
       (/\ sweep[s].pc \in {"wait", "verify"}
        /\ sweep'[s] # sweep[s]
        /\ StoredLastSeen(Head(sweep[s].cands).userId)
             > Head(sweep[s].cands).lastSeen) =>
         /\ sweep'[s].pc # "delete"
         /\ sweep'[s].del = Undefined
         /\ storeVars' = storeVars]_vars

\* A candidate was kept because the stored lastSeen had grown, its records
\* being still there.
C4_Witness ==
  \E s \in Sweepers :
    /\ sweep[s].verdict = "active"
    /\ sweep[s].pc = "idle"
    /\ DOMAIN users # {}

\* C5: when one of two tabs of a user has closed and its triggers have fired,
\* while the other tab is open and connected all along, the User and Presence
\* records are there and connectionState is 'online'.
C5_OtherTabKeepsOnline ==
  \A t \in Tabs : \A o \in Tabs :
    (/\ pc[t] = "closed"
     /\ pc[o] = "mounted"
     /\ currentUser[o] = currentUser[t]
     /\ t \notin DOMAIN chatTabs
     /\ due[t] = NoTrigger
     /\ link[o] /\ lastConnected[o]
     /\ due[o] = NoTrigger /\ armed[o] # NoTrigger) =>
      /\ currentUser[o] \in DOMAIN users
      /\ currentUser[o] \in DOMAIN presence
      /\ presence[currentUser[o]].connectionState = "online"

\* C6: once the tab of a user has closed, its triggers have fired, the stored
\* timestamps are older than USER_TIMEOUT and the grace period, and the sweeps
\* have nothing left to do, the User, Presence and Typing records are deleted.
C6_SweptAfterTimeout ==
  \A t \in Tabs :
    (/\ pc[t] = "closed"
     /\ due[t] = NoTrigger
     /\ \A o \in Tabs : pc[o] \in {"idle", "closed"}
     /\ \A s \in Sweepers : sweep[s].pc = "idle"
     /\ \A local \in BOOLEAN : Candidates(local, DOMAIN users) = <<>>
     /\ ~(\E o \in DOMAIN chatTabs : now - chatTabs[o].timestamp < SweepTabWindow)
     /\ now - StoredLastSeen(currentUser[t]) >= USER_TIMEOUT
     /\ now - StoredDisconnectTime(currentUser[t]) >= GRACE_PERIOD) =>
      Absent(currentUser[t])


\* C7: a joinRoom that finds 20 or more users gives up: the tab stays where it
\* was with the 'room is full' error, nothing is written to the store and no
\* disconnect trigger is armed.
C7_FullRoomRejects ==
  [][\A t \in Tabs :
       (/\ pc[t] = "idle"
        /\ Cardinality(DOMAIN users) >= RoomCapacity
        /\ <<pc[t], error[t]>>' # <<pc[t], error[t]>>) =>
         /\ pc'[t] = "idle"
         /\ error'[t] = "full"
         /\ currentUser'[t] = currentUser[t]
         /\ storeVars' = storeVars
         /\ armed' = armed
         /\ due' = due]_vars

\* A join was rejected by a room of 20 users.
C7_Witness ==
  \E t \in Tabs :
    /\ pc[t] = "idle"
    /\ error[t] = "full"
    /\ Cardinality(DOMAIN users) = RoomCapacity

\* C8: whatever the interleaving of the joins, the room never holds more than
\* 20 users.
C8_NeverOverCapacity == Cardinality(DOMAIN users) <= RoomCapacity

\* C9: when a users listener observes the room, every User record that has no
\* Presence record is deleted by that observation.
C9_ListenerDeletesOrphans ==
  [][\A t \in Tabs :
       (pc[t] = "mounted" /\ link[t] /\ view'[t] # view[t]) =>
         \A i \in DOMAIN users \ DOMAIN presence : i \notin DOMAIN users']_vars

\* C10: leaveRoom on an id whose records are absent changes nothing in the
\* store and sets no error, the sweeper's processing of a candidate whose
\* records are absent changes nothing either, and a delete leaves the id
\* absent, so that a second delete is the first one.
C10_DeleteIdempotent ==
  [][/\ \A t \in Tabs :
          (pc[t] = "mounted" /\ pc'[t] = "left" /\ Absent(currentUser[t])) =>
            (storeVars' = storeVars /\ error' = error)
     /\ \A t \in Tabs :
          (pc[t] = "mounted" /\ pc'[t] = "left" /\ link[t]) =>
            (Absent(currentUser[t]))'
     /\ \A s \in Sweepers :
          (/\ sweep[s].pc \in {"wait", "verify"}
           /\ sweep'[s] # sweep[s]
           /\ Absent(Head(sweep[s].cands).userId)) =>
            (storeVars' = storeVars /\ error' = error)
     /\ \A s \in Sweepers :
          (sweep[s].pc = "delete" /\ sweep'[s] # sweep[s]) =>
            /\ Absent(sweep[s].del)'
            /\ Absent(sweep[s].del) => storeVars' = storeVars]_vars

\* A tab has left the room when the records of its user were already gone.
C10_Witness ==
  \E t \in Tabs :
    /\ pc[t] = "left"
    /\ link[t]
    /\ lastCall[t].cause = "reconnect"
    /\ Absent(currentUser[t])
    /\ \E s \in Sweepers : sweep[s].verdict = "removed"


\* C11: while the connection of a single-tab user is down, its User and
\* Presence records are there, and once the debounce timer has expired the
\* controller has called updatePresence('offline').
C11_OutageKeepsRecords ==
  \A t \in Tabs :
    (/\ pc[t] = "mounted"
     /\ ~link[t] /\ ~lastConnected[t]
     /\ \A o \in Tabs \ {t} : pc[o] = "idle") =>
      /\ currentUser[t] \in DOMAIN users
      /\ currentUser[t] \in DOMAIN presence
      /\ timers[t] = {} => lastCall[t] = [state |-> "offline", cause |-> "debounce"]

\* A step in which the store runs the disconnect operations of a connection.
TriggerStep == \E t \in Tabs : due[t] # NoTrigger /\ due'[t] = NoTrigger

C13_UserIffPresence ==
  [][(/\ DOMAIN users = DOMAIN presence
      /\ \A t \in Tabs : pc[t] \notin {"joinRead", "joinUser"}) =>
       DOMAIN users' = DOMAIN presence']_vars

\* C14: a client that writes a user online (the two writes of joinRoom, the
\* first updatePresence('online') of the controller, the one on reconnect) has
\* disconnect triggers armed for that user on its connection by then.
C14_ArmedBeforeOnline ==
  [][\A t \in Tabs :
       (\/ pc'[t] # pc[t] /\ pc'[t] \in {"joinUser", "joinPres"}
        \/ /\ lastCall'[t] # lastCall[t]
           /\ lastCall'[t].state = "online"
           /\ lastCall'[t].cause \in {"init", "reconnect"}) =>
         /\ armed'[t] # NoTrigger
         /\ armed'[t].id = currentUser'[t]]_vars


\* C15: when the debounce timer of a controller expires while the registry
\* holds a fresh entry of another tab of the user, the controller calls nothing
\* and the store is left alone; when it holds none, the controller calls
\* updatePresence('offline') and no record is deleted.
C15_DebounceExpiry ==
  [][\A t \in Tabs :
       (/\ pc[t] = "mounted" /\ pc'[t] = "mounted"
        /\ link'[t] = link[t]
        /\ now \in timers[t] /\ now \notin timers'[t]) =>
         IF \E o \in DOMAIN chatTabs :
              /\ o # t
              /\ chatTabs[o].userId = currentUser[t]
              /\ now - chatTabs[o].timestamp < TabActiveWindow
         THEN storeVars' = storeVars /\ lastCall' = lastCall
         ELSE /\ lastCall'[t] = [state |-> "offline", cause |-> "debounce"]
              /\ link[t] => /\ currentUser[t] \in DOMAIN presence'
                            /\ presence'[currentUser[t]].connectionState = "offline"
              /\ DOMAIN users \subseteq DOMAIN users'
              /\ DOMAIN presence \subseteq DOMAIN presence'
              /\ typing' = typing]_vars

\* The debounce timer of a disconnected controller has expired while another
\* tab of the user was active, and the controller has called nothing.
C15_Witness ==
  \E t \in Tabs : \E o \in DOMAIN chatTabs :
    /\ o # t
    /\ pc[t] = "mounted" /\ pc[o] = "mounted"
    /\ chatTabs[o].userId = currentUser[t]
    /\ now - chatTabs[o].timestamp < TabActiveWindow
    /\ ~lastConnected[t]
    /\ timers[t] = {}
    /\ lastCall[t].cause # "debounce"


\* C16: while the chat container of a joined client stays mounted, the client
\* deletes neither its User nor its Presence record: a step that is no trigger
\* firing and no sweep keeps the complete records of a mounted tab's user.
C16_NoSelfDelete ==
  [][\A t \in Tabs :
       (/\ pc[t] = "mounted" /\ pc'[t] = "mounted"
        /\ ~TriggerStep
        /\ sweep' = sweep
        /\ currentUser[t] \in DOMAIN users
        /\ users[currentUser[t]].complete
        /\ currentUser[t] \in DOMAIN presence) =>
         /\ currentUser[t] \in DOMAIN users'
         /\ currentUser[t] \in DOMAIN presence']_vars

\* C17: a leave by one tab while the registry holds a fresh entry of another
\* mounted tab of the same user leaves the user's User, Presence and Typing
\* records as they are.
C17_LeaveKeepsForOtherTab ==
  [][\A t \in Tabs : \A o \in Tabs \ {t} :
       (/\ pc[t] = "mounted" /\ pc'[t] = "left"
        /\ pc[o] = "mounted"
        /\ currentUser[o] = currentUser[t]
        /\ o \in DOMAIN chatTabs
        /\ chatTabs[o].userId = currentUser[t]
        /\ now - chatTabs[o].timestamp < TabActiveWindow) =>
         storeVars' = storeVars]_vars

\* C18: after a leave, the drop of that client's connection fires nothing
\* that changes the user's paths in the store.
C18_NoTriggerAfterLeave ==
  [][\A t \in Tabs :
       (pc[t] = "left" /\ due[t] # NoTrigger /\ due'[t] = NoTrigger) =>
         storeVars' = storeVars]_vars


\* The registry of the sweeper's browser holds an entry of an active tab of
\* the user.
TabRegistered(local, id) ==
  /\ local
  /\ \E o \in DOMAIN chatTabs :
       /\ chatTabs[o].userId = id
       /\ now - chatTabs[o].timestamp < TabActiveWindow

\* The Presence record of the user carries a disconnectTime less than
\* GRACE_PERIOD old.
InGrace(id) ==
  /\ id \in DOMAIN presence
  /\ presence[id].disconnectTime # Undefined
  /\ now - presence[id].disconnectTime < GRACE_PERIOD

\* C19: a scan does not make a candidate of a user who has an active tab in
\* the registry, or whose Presence record has gracePeriodActive true and a
\* disconnectTime less than GRACE_PERIOD old, or whose lastSeen (of the
\* Presence record, else of the User record) is less than USER_TIMEOUT old.
C19_ScanKeeps ==
  [][\A s \in Sweepers :
       (sweep[s].pc = "idle" /\ sweep'[s] # sweep[s]) =>
         \A id \in DOMAIN users :
           (\/ TabRegistered(sweep'[s].local, id)
            \/ InGrace(id) /\ presence[id].gracePeriodActive = "true"
            \/ /\ StoredLastSeen(id) # Undefined
               /\ now - StoredLastSeen(id) < USER_TIMEOUT) =>
             \A k \in 1..Len(sweep'[s].cands) :
               sweep'[s].cands[k].userId # id]_vars

\* A scan has found no candidate although the lastSeen of a user is older
\* than USER_TIMEOUT: the user is inside the grace period of its disconnect.
C19_Witness ==
  \E s \in Sweepers : \E id \in DOMAIN users :
    /\ sweep[s].pc = "idle"
    /\ sweep[s].verdict = "kept"
    /\ InGrace(id)
    /\ presence[id].gracePeriodActive = "true"
    /\ now - StoredLastSeen(id) >= USER_TIMEOUT

\* C20: the verification of a candidate does not go on to the delete when a
\* tab of the user is in the registry by then, or when the Presence record
\* carries by then a disconnectTime less than GRACE_PERIOD old.
C20_VerifyAborts ==
  [][\A s \in Sweepers :
       (/\ sweep[s].pc \in {"wait", "verify"}
        /\ sweep'[s] # sweep[s]
        /\ \/ TabRegistered(sweep[s].local, Head(sweep[s].cands).userId)
           \/ InGrace(Head(sweep[s].cands).userId)) =>
         sweep'[s].pc # "delete"]_vars


\* C29: a heartbeat tick of a controller whose last observed connectivity is
\* true refreshes the tab's registration and rewrites Presence and User with
\* lastSeen = now and connectionState 'away' when the page is hidden, else
\* 'online'; a tick of a controller whose last observed connectivity is false
\* changes neither the registry nor the store.
C29_HeartbeatTick ==
  [][\A t \in Tabs :
       (/\ pc[t] = "mounted" /\ pc'[t] = "mounted"
        /\ now' = now
        /\ now = beatAt[t]
        /\ beatAt'[t] # beatAt[t]) =>
         IF lastConnected[t]
         THEN /\ t \in DOMAIN chatTabs'
              /\ chatTabs'[t] = [userId |-> currentUser[t], timestamp |-> now]
              /\ lastCall'[t].state = IF hidden[t] THEN "away" ELSE "online"
              /\ link[t] =>
                   /\ currentUser[t] \in DOMAIN presence'
                   /\ presence'[currentUser[t]].lastSeen = now
                   /\ presence'[currentUser[t]].connectionState
                        = IF hidden[t] THEN "away" ELSE "online"
                   /\ currentUser[t] \in DOMAIN users'
                   /\ users'[currentUser[t]].lastSeen = now
                   /\ users'[currentUser[t]].connectionState
                        = IF hidden[t] THEN "away" ELSE "online"
         ELSE /\ chatTabs' = chatTabs
              /\ storeVars' = storeVars
              /\ lastCall' = lastCall]_vars

\* A heartbeat of a hidden page has written 'away'.
C29_Witness ==
  \E t \in Tabs :
    /\ pc[t] = "mounted"
    /\ hidden[t]
    /\ lastCall[t] = [state |-> "away", cause |-> "heartbeat"]
    /\ currentUser[t] \in DOMAIN presence
    /\ presence[currentUser[t]].connectionState = "away"
    /\ presence[currentUser[t]].lastSeen = now

\* C30: a visibility change of a connected controller calls updatePresence
\* with 'online' for a visible and 'away' for a hidden page and leaves the
\* debounce timer alone; a visibility change of a disconnected controller
\* writes nothing.
C30_VisibilityChange ==
  [][\A t \in Tabs :
       (pc[t] = "mounted" /\ hidden'[t] # hidden[t]) =>
         /\ timers' = timers
         /\ timeoutRef' = timeoutRef
         /\ IF lastConnected[t]
            THEN /\ lastCall'[t] = [state |-> IF hidden'[t] THEN "away" ELSE "online",
                                    cause |-> "visibility"]
                 /\ link[t] =>
                      /\ currentUser[t] \in DOMAIN presence'
                      /\ presence'[currentUser[t]].connectionState
                           = IF hidden'[t] THEN "away" ELSE "online"
            ELSE /\ storeVars' = storeVars
                 /\ lastCall' = lastCall]_vars

\* The page of a disconnected controller was hidden and nothing was called,
\* its debounce timer still pending.
C30_Witness ==
  \E t \in Tabs :
    /\ pc[t] = "mounted"
    /\ ~lastConnected[t]
    /\ hidden[t]
    /\ timers[t] # {}
    /\ lastCall[t].cause # "visibility"


\* C23: hasOtherActiveTabs is true exactly when the registry holds an entry of
\* the same user, of another tab, whose age is below the tab timeout, and that
\* timeout is the one the sweeper's tab check uses: for the other tabs of a
\* mounted tab's user, the controller's check and the sweeper's age test agree.
C23_OneTabTimeout ==
  \A t \in Tabs :
    pc[t] = "mounted" =>
      (hasOtherActiveTabs(t, chatTabs)
         <=> \E o \in DOMAIN chatTabs :
               /\ chatTabs[o].userId = currentUser[t]
               /\ o # t
               /\ now - chatTabs[o].timestamp < SweepTabWindow)

\* C24: after a tab has registered or refreshed itself, the registry holds one
\* fresh entry of the tab and no entry that is older than the tab timeout.
C24_RegisterPurges ==
  [][\A t \in Tabs :
       (/\ t \in DOMAIN chatTabs'
        /\ chatTabs'[t].timestamp = now
        /\ (t \notin DOMAIN chatTabs \/ chatTabs[t] # chatTabs'[t])) =>
         /\ chatTabs'[t].userId = currentUser'[t]
         /\ \A o \in DOMAIN chatTabs' :
              now - chatTabs'[o].timestamp <= TabActiveWindow]_vars


C25_TeardownStopsAll ==
  [][/\ \A t \in Tabs :
          (pc[t] = "left" /\ pc'[t] = "left") =>
            /\ lastCall'[t] = lastCall[t]
            /\ timers'[t] = {} /\ beatAt'[t] = Undefined
     /\ \A s \in Sweepers :
          sweep[s].stopped => sweep'[s] = sweep[s]]_vars


C26_AtMostFivePerMinute ==
  \A t \in Tabs :
    Cardinality({k \in 1..Len(chat[t].sent) :
                   chat[t].sent[k] > now - RateWindow}) <= RateLimit


C28_MainStaysMain ==
  [][\A t \in Tabs :
       (/\ mgr[t].pc = "on" /\ mgr'[t].pc = "on"
        /\ mainTab.tabId = t
        /\ mainTab.userId = mgr[t].userId) =>
         \/ mainTab'.tabId = t
         \/ mainTab'.userId # mainTab.userId]_vars


C39_OnlineIffConnectionState ==
  /\ \A i \in DOMAIN presence :
       (presence[i].isOnline = "true") <=> (presence[i].connectionState = "online")
  /\ \A i \in DOMAIN users :
       (users[i].isOnline = "true") <=> (users[i].connectionState = "online")


\* C36: every stored User record has id, name and color; no write of a
\* running controller creates a User record without them.
C36_UserRecordsComplete ==
  \A i \in DOMAIN users : users[i].complete


\* C34: in no step does the lastSeen stored in a User record or in a Presence
\* record decrease, for a record that is in the store before and after the
\* step with a lastSeen.
C34_LastSeenNeverDecreases ==
  [][/\ \A i \in DOMAIN users \cap DOMAIN users' :
          (users[i].lastSeen # Undefined /\ users'[i].lastSeen # Undefined)
            => users'[i].lastSeen >= users[i].lastSeen
     /\ \A i \in DOMAIN presence \cap DOMAIN presence' :
          (presence[i].lastSeen # Undefined /\ presence'[i].lastSeen # Undefined)
            => presence'[i].lastSeen >= presence[i].lastSeen]_vars


\* C37: when a sweeper's delete of a user is applied, the lastSeen the store
\* holds for that user is USER_TIMEOUT old or older.
C37_DeleteOnlyTimedOut ==
  [][\A s \in Sweepers :
       (/\ sweep[s].pc = "delete"
        /\ sweep'[s] # sweep[s]
        /\ sweep[s].del \in DOMAIN users
        /\ sweep[s].del \notin DOMAIN users')
         => TimedOut(StoredLastSeen(sweep[s].del))]_vars


\* A Presence record without a User record of the same id.
OrphanPresence(i) == i \in DOMAIN presence /\ i \notin DOMAIN users

\* C35: a Presence record without User record does not stay in the store for
\* ever: one that is in the store at the first instant, and so has the time of
\* the two sweeps' thresholds before it, is removed at some time.
C35_OrphanPresenceRemoved ==
  \A i \in Ids :
    (OrphanPresence(i) /\ now = Tick) ~> ~OrphanPresence(i)

\* Under the same fairness a User record whose tab has gone is removed.
SweepsRemoveAbandonedUser ==
  \A i \in Ids :
    (i \in DOMAIN users /\ now = Tick
       /\ \A t \in Tabs : currentUser[t] = i => pc[t] = "closed")
      ~> (i \notin DOMAIN users)


C40_FailedJoinLeavesNothing ==
  \A t \in Tabs :
    (pc[t] = "idle" /\ error[t] \in {"invalid", "full", "failed"}) =>
      /\ ~isLoading(t)
      /\ (error[t] = "failed" /\ currentUser[t] # Undefined) =>
           /\ currentUser[t] \notin DOMAIN users
           /\ currentUser[t] \notin DOMAIN presence


\* C33: when the entry of a mounted tab is missing from the registry, the
\* tab's next heartbeat tick puts it back.
C33_TickRestoresEntry ==
  [][\A t \in Tabs :
       (/\ pc[t] = "mounted" /\ pc'[t] = "mounted"
        /\ t \notin DOMAIN chatTabs
        /\ now = beatAt[t] /\ now' = now
        /\ beatAt'[t] = beatAt[t] + HEARTBEAT_INTERVAL)
         => t \in DOMAIN chatTabs']_vars


\* While a mounted, connected tab's TypingStatus is stored, a timeout that
\* deletes it is pending, due TYPING_TIMEOUT after the last typing event or
\* earlier; and each hook has at most one timeout pending.
TypingExpiryPending ==
  \A t \in Tabs :
    /\ Cardinality(typist[t].hookTimers) <= 1
    /\ Cardinality(typist[t].chatTimers) <= 1
    /\ (pc[t] = "mounted" /\ link[t] /\ currentUser[t] \in typing) =>
         \E dl \in {typist[t].inputTimer} \cup typist[t].hookTimers
                     \cup typist[t].chatTimers :
           dl # Undefined /\ dl >= now /\ dl <= typist[t].lastEvent + TYPING_TIMEOUT

\* A typing event that comes less than TYPING_TIMEOUT after the one before
\* finds the TypingStatus stored.
TypingEventFindsRecord ==
  \A t \in Tabs :
    (/\ pc[t] = "mounted" /\ link[t]
     /\ typist'[t].lastEvent = now
     /\ typist'[t] # typist[t]
     /\ typist[t].lastEvent # Undefined
     /\ now - typist[t].lastEvent < TYPING_TIMEOUT)
      => currentUser[t] \in typing

\* C32: the TypingStatus of a user who has stopped typing is deleted by a
\* timeout of the client, TYPING_TIMEOUT after the last typing event at the
\* latest; each hook has at most one timeout pending; and the TypingStatus is
\* not deleted between typing events less than TYPING_TIMEOUT apart.
C32_TypingExpiry ==
  [](TypingExpiryPending) /\ [][TypingEventFindsRecord]_vars

====
